---- MODULE Spec2Model ----
(***************************************************************************)
(* Model of the pi-tmux extension (src/extensions/tmux.ts): the session    *)
(* registry (activeWindows), the interference cache (lastWarnedInput),     *)
(* the tool handlers tmux-bash, tmux-capture, tmux-send, tmux-kill,        *)
(* tmux-coding-agent, the /tmux-list command and the session_shutdown      *)
(* handler, running against a tmux server and the pi-semaphore lock        *)
(* directory.                                                              *)
(*                                                                         *)
(* Every handler is an async function.  Each `await` is two steps of the   *)
(* model: the awaited call taking effect in tmux / the lock directory      *)
(* (Tmux..., CreateLock, ReleaseLock, TimerFires) and the handler resuming *)
(* with the reply (...After...).  The synchronous code between two awaits  *)
(* is one atomic step, as in JavaScript.                                   *)
(*                                                                         *)
(* Names are sequences: <<"dev">> is "dev" and Append(<<"dev">>, 2) is     *)
(* "dev-2", so `${baseName}-${n}` is Append and "dev-2" requested as a     *)
(* base is the same name as the second rename of "dev".                    *)
(***************************************************************************)
EXTENDS Integers, Sequences, FiniteSets, TLC

\* ---------------------------------------------------------------- bounds
\* Windows ever created in one behaviour (spawned or external).
MaxWindows == 2
\* Polls of the coding agent's startup loop whose timer is on time; after
\* them the timer is late and the budget has elapsed (the code polls up to
\* MaxWait / PollMs = 17 times).
MaxPolls == 1
\* Windows spawned in one behaviour of SpecSpawn (spawns with no kill or exit).
MaxSpawns == 3

\* ------------------------------------------------------ program constants
ProbeLimit == 1000
Pid == 4242
MaxWait == 5000
PollMs == 300

\* ------------------------------------------------------------ vocabulary
\* tool calls that can be in flight at once (one under Spec, both under SpecConc)
Slots == {1, 2}
NoName == <<>>
SpawnNames == {<<"dev">>}
ExternalNames == {<<"dev">>}
Variants == {"rename", "reject"}
Texts == {"hello", "hello world"}
NoText == ""
\* what a pane shows: nothing, at most 10 non-blank lines, more than 10 without
\* the help block, or more than 10 of which at most 10 are left without it
Outputs == {"empty", "few", "many", "banner"}

VARIABLES tmuxEnv, variant, windows, nextId, activeWindows, lastWarnedInput, locks, ops, lockLog, lastDone, lastSend

vars == <<tmuxEnv, variant, windows, nextId, activeWindows, lastWarnedInput, locks, ops, lockLog, lastDone, lastSend>>

\* ------------------------------------------------------------ map helpers
EmptyMap == [x \in {} |-> x]
Put(f, k, v) == [x \in (DOMAIN f) \cup {k} |-> IF x = k THEN v ELSE f[x]]
Del(f, k) == [x \in (DOMAIN f) \ {k} |-> f[x]]

\* ------------------------------------------------------------ names, locks
sanitizeName(n) == n
getTmuxLockName(windowName) == <<"tmux:">> \o sanitizeName(windowName)

\* lines 101-110: the loop returns the first candidate from n on, below the
\* limit, that is not taken; when it runs out, the name built from the pid
ProbeFrom(baseName, existingNames, n) ==
    IF \E m \in n..(ProbeLimit - 1) : Append(baseName, m) \notin existingNames
    THEN Append(baseName, CHOOSE m \in n..(ProbeLimit - 1) :
                              /\ Append(baseName, m) \notin existingNames
                              /\ \A x \in n..(m - 1) : Append(baseName, x) \in existingNames)
    ELSE Append(baseName, Pid)

findUniqueWindowName_RegistryOnly(baseName, code, stdoutNames) ==
    LET existingNames == DOMAIN activeWindows
    IN IF baseName \notin existingNames THEN baseName
       ELSE ProbeFrom(baseName, existingNames, 2)
\* a resolver that trusts the listing alone
findUniqueWindowName_ListingOnly(baseName, code, stdoutNames) ==
    LET existingNames == IF code = "ok" THEN stdoutNames ELSE {}
    IN IF baseName \notin existingNames THEN baseName
       ELSE ProbeFrom(baseName, existingNames, 2)
findUniqueWindowName(baseName, code, stdoutNames) ==
    LET existingNames == (IF code = "ok" THEN stdoutNames ELSE {}) \cup DOMAIN activeWindows
    IN IF baseName \notin existingNames THEN baseName
       ELSE ProbeFrom(baseName, existingNames, 2)

RECURSIVE LockProbe(_, _)
LockProbe(base, n) ==
    IF Append(base, n) \notin DOMAIN locks THEN Append(base, n) ELSE LockProbe(base, n + 1)
createLockName(base) == IF base \notin DOMAIN locks THEN base ELSE LockProbe(base, 2)

\* ---------------------------------------------------------------- tmux
WindowNames == {w.name : w \in windows}
WindowsNamed(n) == {w \in windows : w.name = n}
\* tmux resolves -t <name> to the one window of that name; none or several: error
Resolves(n) == Cardinality(WindowsNamed(n)) = 1
TargetOf(n) == CHOOSE w \in windows : w.name = n

\* ------------------------------------------------------------- operations
NoRet == [st |-> "none", names |-> {}, lock |-> NoName, released |-> FALSE, out |-> "empty", input |-> NoText, stdout |-> <<>>]
NoRes == [error |-> "-", kind |-> "-", name |-> NoName, lockName |-> NoName, lockReleased |-> FALSE, available |-> {}, input |-> NoText, output |-> "empty"]
NoDone == [op |-> "-", name |-> NoName, kind |-> "-", text |-> NoText]
\* a tool call: its parameters (op, name, skip, enter), its position (pc), its
\* locals (actual, wid, lock, saved, out, elapsed), the reply it awaits (ret),
\* its result (res), and what is kept to judge it: the calls it issued, whether
\* its listing showed the name (seen), the listing it finished on (listed),
\* whether the registry tracked the name when it began (tracked), for a spawn
\* whether tmux had a window of the name when it began (taken), and for tmux-kill the lock the registry
\* held for the name when the call began (held) and the kill it repeats (prev);
\* for tmux-send the text its check found in the input box (input), the text
\* the cache held for the name at that moment (cached), the window its check
\* looked at (target), whether tmux-coding-agent made that window (session)
\* and the send attempt that window saw before (prev)
IdleOp == [op |-> "-", pc |-> "idle", name |-> NoName, actual |-> NoName, wid |-> 0, skip |-> FALSE, enter |-> FALSE, lock |-> NoName, saved |-> "-", out |-> "empty", elapsed |-> 0, aborted |-> FALSE, ret |-> NoRet, res |-> NoRes, calls |-> {}, seen |-> "-", listed |-> {}, tracked |-> FALSE, held |-> NoName, prev |-> NoDone, input |-> NoText, cached |-> NoText, target |-> 0, session |-> FALSE, taken |-> FALSE, detected |-> [done |-> FALSE, text |-> <<>>], stripped |-> [done |-> FALSE, text |-> <<>>]]

InFlight(s) == ops[s].pc \notin {"idle", "done"}
NumInFlight == Cardinality({s \in Slots : InFlight(s)})
\* the caller's next call takes the lowest slot that holds no call in flight
FreeSlot(s) == ~InFlight(s) /\ \A t \in Slots : t < s => InFlight(t)
CanBegin(s, limit) == FreeSlot(s) /\ NumInFlight < limit

Res(err, kind) == [NoRes EXCEPT !.error = err, !.kind = kind]

\* o finishes with result r: the result stays for inspection, with the name and
\* lock the call worked on, the code of its main tmux call and what it issued
Finished(o, r) == [IdleOp EXCEPT !.op = o.op, !.pc = "done", !.name = o.name, !.res = r, !.actual = o.actual, !.wid = o.wid, !.lock = o.lock, !.saved = o.saved, !.calls = o.calls, !.seen = o.seen, !.listed = IF o.pc \in {"cap_list", "snd_list", "k_list", "ls_list"} THEN o.ret.names ELSE {}, !.tracked = o.tracked, !.held = o.held, !.prev = o.prev, !.input = o.input, !.cached = o.cached, !.target = o.target, !.session = o.session, !.enter = o.enter, !.taken = o.taken]
\* the last finished call, kept for tmux-kill (what a repeated kill follows)
Other == [NoDone EXCEPT !.op = "other"]
\* the mark of a call during which somebody else opened a window
Interfered == [NoDone EXCEPT !.op = "interfered"]
DoneOf(o, r) ==
    IF o.op = "kill" /\ r.kind = "killed" /\ o.prev # Interfered
    THEN [NoDone EXCEPT !.op = o.op, !.name = o.name, !.kind = r.kind]
    ELSE Other
\* the outcome of a checked tmux-send, kept per window it looked at
AttemptOf(o, r) == [NoDone EXCEPT !.op = o.op, !.name = o.name, !.kind = IF r.error = "human_typing_detected" THEN "blocked" ELSE "forwarded", !.text = o.input]
LastAttempt(wid) == IF wid \in DOMAIN lastSend THEN lastSend[wid] ELSE NoDone
\* o issues the call `call` and suspends at pc
Await(o, pc, call) == [o EXCEPT !.pc = pc, !.ret = NoRet, !.calls = @ \cup {call}]

\* a send-keys that always presses Enter
sendKeysArgs_AlwaysEnter(enter) == {"send-keys", "Enter"}
\* lines 608-612: the arguments of send-keys, Enter appended only when asked
sendKeysArgs(enter) == IF enter THEN {"send-keys", "Enter"} ELSE {"send-keys"}
\* line 614: the send-keys call is issued and awaited
AwaitSendKeys(o) == [o EXCEPT !.pc = "snd_keys", !.ret = NoRet, !.calls = @ \cup sendKeysArgs(o.enter)]

TargetNames == SpawnNames \cup WindowNames \cup DOMAIN activeWindows \cup DOMAIN lastWarnedInput

Init ==
    /\ tmuxEnv \in BOOLEAN
    /\ variant \in Variants
    /\ windows = {}
    /\ nextId = 1
    /\ activeWindows = EmptyMap
    /\ lastWarnedInput = EmptyMap
    /\ locks = EmptyMap
    /\ ops = [s \in Slots |-> IdleOp]
    /\ lockLog = EmptyMap
    /\ lastDone = NoDone
    /\ lastSend = EmptyMap

\* a step of slot s to op record o2; a finished call becomes the last result
SetOp(s, o2) ==
    /\ ops' = [ops EXCEPT ![s] = o2]
    /\ lastDone' = IF o2.pc = "done" THEN DoneOf(o2, o2.res) ELSE lastDone
    /\ lastSend' = IF o2.pc = "done" /\ o2.op = "send" /\ o2.target # 0
                   THEN Put(lastSend, o2.target, AttemptOf(o2, o2.res))
                   ELSE lastSend
Replied(o) == o.ret.st \in {"ok", "fail"}

\* ------------------------------------------------- createWindow (119-179)
createWindowNamed(o) ==
    IF ~o.skip THEN Await(o, "cw_lock", "createLock") ELSE Await(o, "cw_new", "new-window")
createWindowEntry_NoCheck(o) ==
    IF variant = "rename" THEN Await([o EXCEPT !.wid = nextId], "cw_list", "list-windows")
    ELSE IF o.name \in DOMAIN activeWindows THEN Finished(o, Res("window_exists", "-"))
    ELSE createWindowNamed([o EXCEPT !.wid = nextId, !.actual = o.name])
\* lines 125-132; in the registry-only variant lines 966-981
createWindowEntry(o) ==
    IF ~tmuxEnv THEN Finished(o, Res("no_tmux", "-"))
    ELSE IF variant = "rename" THEN Await([o EXCEPT !.wid = nextId], "cw_list", "list-windows")
    ELSE IF o.name \in DOMAIN activeWindows THEN Finished(o, Res("window_exists", "-"))
    ELSE createWindowNamed([o EXCEPT !.wid = nextId, !.actual = o.name])

BeginSpawn(s, limit, cap, kind, n, skipLock) ==
    /\ CanBegin(s, limit)
    /\ nextId <= cap
    /\ LET o2 == createWindowEntry([IdleOp EXCEPT !.op = kind, !.name = n, !.skip = skipLock, !.tracked = n \in DOMAIN activeWindows, !.taken = n \in WindowNames])
       IN /\ SetOp(s, o2)
          /\ nextId' = IF o2.wid # 0 THEN nextId + 1 ELSE nextId
    /\ UNCHANGED <<tmuxEnv, variant, windows, activeWindows, lastWarnedInput, locks, lockLog>>

\* tmux-bash execute, lines 383-390
TmuxBash(s, limit, cap) ==
    \E n \in SpawnNames : BeginSpawn(s, limit, cap, "bash", n, FALSE)

\* tmux-coding-agent execute, lines 767-780
\* a coding agent spawned with the tmux lock
TmuxCodingAgent_WithLock(s, limit, cap) ==
    \E n \in SpawnNames : BeginSpawn(s, limit, cap, "agent", n, FALSE)
TmuxCodingAgent(s, limit, cap) ==
    \E n \in SpawnNames : BeginSpawn(s, limit, cap, "agent", n, TRUE)

\* line 132 (findUniqueWindowName returned) to the await of line 136 or 160
CreateWindowAfterList(s) ==
    LET o == ops[s]
        named == [o EXCEPT !.actual = findUniqueWindowName(o.name, o.ret.st, o.ret.names)]
    IN /\ o.pc = "cw_list" /\ Replied(o)
       /\ SetOp(s, createWindowNamed(named))
       /\ UNCHANGED <<tmuxEnv, variant, windows, nextId, activeWindows, lastWarnedInput, locks, lockLog>>

\* lines 137-160: the lock name goes into the command's cleanup suffix
CreateWindowAfterLock(s) ==
    LET o == ops[s]
    IN /\ o.pc = "cw_lock" /\ Replied(o)
       /\ SetOp(s, Await([o EXCEPT !.lock = o.ret.lock], "cw_new", "new-window"))
       /\ UNCHANGED <<tmuxEnv, variant, windows, nextId, activeWindows, lastWarnedInput, locks, lockLog>>

\* lines 162-175
createWindowOnReply_NoRelease(o) ==
    IF o.ret.st = "fail"
    THEN Finished(o, Res("create_failed", "-"))
    ELSE Await(o, "cw_set", "set-option")
createWindowOnReply(o) ==
    IF o.ret.st = "fail"
    THEN IF o.lock # NoName
         THEN Await(o, "cw_relfail", "releaseLock")
         ELSE Finished(o, Res("create_failed", "-"))
    ELSE Await(o, "cw_set", "set-option")

CreateWindowAfterNew(s) ==
    LET o == ops[s]
    IN /\ o.pc = "cw_new" /\ Replied(o)
       /\ SetOp(s, createWindowOnReply([o EXCEPT !.saved = o.ret.st]))
       /\ UNCHANGED <<tmuxEnv, variant, windows, nextId, activeWindows, lastWarnedInput, locks, lockLog>>

\* lines 163-167: the lock is released, then create_failed is thrown
CreateWindowAfterRelease(s) ==
    LET o == ops[s]
    IN /\ o.pc = "cw_relfail" /\ Replied(o)
       /\ SetOp(s, Finished(o, Res("create_failed", "-")))
       /\ UNCHANGED <<tmuxEnv, variant, windows, nextId, activeWindows, lastWarnedInput, locks, lockLog>>

\* ------------------------------------- tmux-coding-agent poll loop (798-875)
\* lines 814-817 and 829-831: more than 10 lines that are not blank
lineCountOver10(out) == out \in {"many", "banner"}
\* lines 187-228: the text without the keybinding help and [Extensions] blocks
stripStartupHelp(out) == IF out = "banner" THEN "few" ELSE out
\* lines 844-875: the help block is stripped from the text the loop ended with
AgentFinish(o) ==
    Finished(o, [Res("-", "started") EXCEPT !.name = o.actual, !.lockName = sanitizeName(o.actual), !.output = stripStartupHelp(o.out)])
\* a final capture taken whatever the loop ended with
AgentAfterLoop_AlwaysCapture(o) == Await(o, "ag_final", "capture-pane")
\* lines 827-841
AgentAfterLoop(o) ==
    IF ~lineCountOver10(o.out) THEN Await(o, "ag_final", "capture-pane") ELSE AgentFinish(o)
\* lines 804-811
AgentLoopHead(o) ==
    IF o.elapsed < MaxWait /\ ~o.aborted
    THEN Await(o, "ag_poll", "capture-pane")
    ELSE AgentAfterLoop(o)

\* an entry that records the lock name asked for, not the one returned
registerWindow_RequestedLock(o) ==
    Put(activeWindows, o.actual, [lockName |-> getTmuxLockName(o.actual), isCodingAgent |-> o.op = "agent" /\ variant = "rename"])
\* line 176: the session is recorded; lines 178, 391-407 or 782-804
registerWindow(o) ==
    Put(activeWindows, o.actual, [lockName |-> o.lock, isCodingAgent |-> o.op = "agent" /\ variant = "rename"])
CreateWindowAfterSet(s) ==
    LET o == ops[s]
        o2 == IF o.op = "agent"
              THEN AgentLoopHead([o EXCEPT !.elapsed = 0, !.out = "empty"])
              ELSE Finished(o, [Res("-", "created") EXCEPT !.name = o.actual, !.lockName = o.lock])
    IN /\ o.pc = "cw_set" /\ Replied(o)
       /\ activeWindows' = registerWindow(o)
       /\ lockLog' = IF o.wid \in DOMAIN lockLog THEN [lockLog EXCEPT ![o.wid].ok = TRUE] ELSE lockLog
       /\ SetOp(s, o2)
       /\ UNCHANGED <<tmuxEnv, variant, windows, nextId, lastWarnedInput, locks>>

\* lines 812-824
AgentAfterPoll(s) ==
    LET o == ops[s]
        o2 == IF o.ret.st = "ok"
              THEN IF lineCountOver10(o.ret.out)
                   THEN AgentAfterLoop([o EXCEPT !.out = o.ret.out])
                   ELSE Await([o EXCEPT !.out = o.ret.out], "ag_sleep", "timer")
              ELSE Await(o, "ag_sleep", "timer")
    IN /\ o.pc = "ag_poll" /\ Replied(o)
       /\ SetOp(s, o2)
       /\ UNCHANGED <<tmuxEnv, variant, windows, nextId, activeWindows, lastWarnedInput, locks, lockLog>>

\* line 824 resumed: back to the loop condition of line 804
AgentAfterSleep(s) ==
    LET o == ops[s]
        o2 == AgentLoopHead(o)
    IN /\ o.pc = "ag_sleep" /\ Replied(o)
       /\ SetOp(s, o2)
       /\ UNCHANGED <<tmuxEnv, variant, windows, nextId, activeWindows, lastWarnedInput, locks, lockLog>>

\* lines 838-875
AgentAfterFinal(s) ==
    LET o == ops[s]
        o2 == AgentFinish(IF o.ret.st = "ok" THEN [o EXCEPT !.out = o.ret.out] ELSE o)
    IN /\ o.pc = "ag_final" /\ Replied(o)
       /\ SetOp(s, o2)
       /\ UNCHANGED <<tmuxEnv, variant, windows, nextId, activeWindows, lastWarnedInput, locks, lockLog>>

\* ---------------------------------------------- tmux and the lock directory
ListPcs == {"cw_list", "cap_list", "snd_list", "k_list", "ls_list"}
CapturePcs == {"cap_pane", "snd_check", "ag_poll", "ag_final"}
ReleasePcs == {"cw_relfail", "k_relabsent", "k_rellive"}
TmuxPcs == ListPcs \cup CapturePcs \cup {"cw_new", "cw_set", "snd_keys", "k_kill"}
Pending(s, pcs) == ops[s].pc \in pcs /\ ops[s].ret.st = "none"
OkRet == [NoRet EXCEPT !.st = "ok"]
FailRet == [NoRet EXCEPT !.st = "fail"]
Reply(s, r) == ops' = [ops EXCEPT ![s].ret = r]
\* the window name a call of o addresses: the agent polls the window it created
Addressed(o) == IF o.op = "agent" THEN o.actual ELSE o.name
LogRelease(L, by) ==
    IF L \in DOMAIN locks /\ locks[L] \in DOMAIN lockLog
    THEN [lockLog EXCEPT ![locks[L]].rel = @ \cup {by}]
    ELSE lockLog

\* tmux list-windows -F #{window_name}
TmuxListWindows(s) ==
    /\ Pending(s, ListPcs)
    /\ Reply(s, [OkRet EXCEPT !.names = WindowNames])
    /\ UNCHANGED <<tmuxEnv, variant, windows, nextId, activeWindows, lastWarnedInput, locks, lockLog, lastDone, lastSend>>

\* an identity taken from the requested name
PI_LOCK_NAME_Requested(o) == sanitizeName(o.name)
\* line 153: -e PI_LOCK_NAME=${sanitizeName(name)}, name being the resolved name
PI_LOCK_NAME(o) == sanitizeName(o.actual)
\* tmux new-window -n name -d ... -- bash -c "<command>; rm -f <lock file>"
TmuxNewWindow(s) ==
    LET o == ops[s]
    IN /\ Pending(s, {"cw_new"})
       /\ windows' = windows \cup {[id |-> o.wid, name |-> o.actual, running |-> TRUE, remain |-> FALSE, cleanup |-> o.lock, agent |-> o.op = "agent", env |-> PI_LOCK_NAME(o)]}
       /\ Reply(s, OkRet)
       /\ UNCHANGED <<tmuxEnv, variant, nextId, activeWindows, lastWarnedInput, locks, lockLog, lastDone, lastSend>>

\* tmux set-option -t <window id> remain-on-exit on
TmuxSetOption(s) ==
    LET o == ops[s]
        hit == {w \in windows : w.id = o.wid}
    IN /\ Pending(s, {"cw_set"})
       /\ windows' = (windows \ hit) \cup {[w EXCEPT !.remain = TRUE] : w \in hit}
       /\ Reply(s, IF hit # {} THEN OkRet ELSE FailRet)
       /\ UNCHANGED <<tmuxEnv, variant, nextId, activeWindows, lastWarnedInput, locks, lockLog, lastDone, lastSend>>

\* tmux capture-pane -t <name>.0 -p -S -<lines>: the pane's text is the child's
TmuxCapturePane(s) ==
    LET o == ops[s]
    IN /\ Pending(s, CapturePcs)
       /\ IF Resolves(Addressed(o))
          THEN \E out \in (IF o.op = "agent" THEN Outputs ELSE {"few"}),
                  input \in (IF o.pc = "snd_check" THEN Texts \cup {NoText} ELSE {NoText}) :
                  ops' = [ops EXCEPT ![s].ret = [OkRet EXCEPT !.out = out, !.input = input],
                                     ![s].target = IF o.pc = "snd_check" THEN TargetOf(o.name).id ELSE 0,
                                     ![s].session = IF o.pc = "snd_check" THEN TargetOf(o.name).agent ELSE FALSE,
                                     ![s].prev = IF o.pc = "snd_check" THEN LastAttempt(TargetOf(o.name).id) ELSE @]
          ELSE Reply(s, FailRet)
       /\ UNCHANGED <<tmuxEnv, variant, windows, nextId, activeWindows, lastWarnedInput, locks, lockLog, lastDone, lastSend>>

\* tmux send-keys -t <name> <text> [Enter]
TmuxSendKeys(s) ==
    /\ Pending(s, {"snd_keys"})
    /\ Reply(s, IF Resolves(ops[s].name) THEN OkRet ELSE FailRet)
    /\ UNCHANGED <<tmuxEnv, variant, windows, nextId, activeWindows, lastWarnedInput, locks, lockLog, lastDone, lastSend>>

\* tmux kill-window -t <name>: the window and its process go, no cleanup runs
TmuxKillWindow(s) ==
    LET n == ops[s].name
    IN /\ Pending(s, {"k_kill"})
       /\ IF Resolves(n)
          THEN windows' = windows \ {TargetOf(n)} /\ Reply(s, OkRet)
          ELSE windows' = windows /\ Reply(s, FailRet)
       /\ UNCHANGED <<tmuxEnv, variant, nextId, activeWindows, lastWarnedInput, locks, lockLog, lastDone, lastSend>>

\* pi-semaphore createLock(name): a marker file, renamed -2, -3 on collision
CreateLock(s) ==
    LET o == ops[s]
        L == createLockName(getTmuxLockName(o.actual))
    IN /\ Pending(s, {"cw_lock"})
       /\ locks' = Put(locks, L, o.wid)
       /\ lockLog' = Put(lockLog, o.wid, [lock |-> L, rel |-> {}, ok |-> FALSE])
       /\ Reply(s, [OkRet EXCEPT !.lock = L])
       /\ UNCHANGED <<tmuxEnv, variant, windows, nextId, activeWindows, lastWarnedInput, lastDone, lastSend>>

\* pi-semaphore releaseLock(name): removes the marker, true when there was one
ReleaseLock(s) ==
    LET o == ops[s]
    IN /\ Pending(s, ReleasePcs)
       /\ locks' = Del(locks, o.lock)
       /\ lockLog' = LogRelease(o.lock, IF o.pc = "cw_relfail" THEN "spawn" ELSE "kill")
       /\ Reply(s, [OkRet EXCEPT !.released = o.lock \in DOMAIN locks])
       /\ UNCHANGED <<tmuxEnv, variant, windows, nextId, activeWindows, lastWarnedInput, lastDone, lastSend>>

\* setTimeout(resolve, pollMs): the timer is late when the host is busy
TimerFires(s) ==
    /\ Pending(s, {"ag_sleep"})
    /\ \E d \in {IF ops[s].elapsed < MaxPolls * PollMs THEN PollMs ELSE MaxWait} :
          ops' = [ops EXCEPT ![s].ret = OkRet, ![s].elapsed = IF @ + d < MaxWait THEN @ + d ELSE MaxWait]
    /\ UNCHANGED <<tmuxEnv, variant, windows, nextId, activeWindows, lastWarnedInput, locks, lockLog, lastDone, lastSend>>

\* the wrapped command ends: its cleanup suffix removes the lock file, and the
\* window stays (dead pane) only when remain-on-exit was set
CommandExit(w) ==
    /\ w \in windows /\ w.running
    /\ locks' = IF w.cleanup # NoName THEN Del(locks, w.cleanup) ELSE locks
    /\ lockLog' = IF w.cleanup # NoName THEN LogRelease(w.cleanup, "cleanup") ELSE lockLog
    /\ windows' = IF w.remain THEN (windows \ {w}) \cup {[w EXCEPT !.running = FALSE, !.cleanup = NoName]} ELSE windows \ {w}
    /\ UNCHANGED <<tmuxEnv, variant, nextId, activeWindows, lastWarnedInput, ops, lastDone, lastSend>>

\* somebody closes the window from outside: the process is killed, no cleanup
ExternalClose(w) ==
    /\ w \in windows
    /\ windows' = windows \ {w}
    /\ UNCHANGED <<tmuxEnv, variant, nextId, activeWindows, lastWarnedInput, locks, ops, lockLog, lastDone, lastSend>>

\* somebody opens a window this process does not track, under a free name
ExternalNewWindow(n) ==
    /\ tmuxEnv
    /\ nextId <= MaxWindows
    /\ n \notin WindowNames
    /\ windows' = windows \cup {[id |-> nextId, name |-> n, running |-> TRUE, remain |-> FALSE, cleanup |-> NoName, agent |-> FALSE, env |-> NoName]}
    /\ nextId' = nextId + 1
    /\ lastDone' = Other
    /\ UNCHANGED lastSend
    /\ ops' = [s \in Slots |-> IF InFlight(s) /\ ops[s].op = "kill" THEN [ops[s] EXCEPT !.prev = Interfered] ELSE ops[s]]
    /\ UNCHANGED <<tmuxEnv, variant, activeWindows, lastWarnedInput, locks, lockLog>>

\* ----------------------------------------------------- the other handlers
HeldLock_None(n) == NoName
\* activeWindows.get(name)?.lockName
HeldLock(n) == IF n \in DOMAIN activeWindows THEN activeWindows[n].lockName ELSE NoName

\* a handler that starts with the TMUX check and then lists the windows
BeginListed(s, limit, kind, n, enter, pc) ==
    LET o == [IdleOp EXCEPT !.op = kind, !.name = n, !.enter = enter, !.tracked = n \in DOMAIN activeWindows]
    IN /\ CanBegin(s, limit)
       /\ SetOp(s, IF ~tmuxEnv THEN Finished(o, Res("no_tmux", IF kind = "list" THEN "notify" ELSE "-"))
                   ELSE IF kind = "kill" THEN Await([o EXCEPT !.held = IF n \in DOMAIN activeWindows THEN activeWindows[n].lockName ELSE NoName, !.prev = lastDone, !.session = Resolves(n) /\ TargetOf(n).agent], pc, "list-windows")
                   ELSE Await(o, pc, "list-windows"))
       /\ UNCHANGED <<tmuxEnv, variant, windows, nextId, activeWindows, lastWarnedInput, locks, lockLog>>

\* tmux-capture execute, lines 422-441
TmuxCapture(s, limit) ==
    \E n \in TargetNames : BeginListed(s, limit, "capture", n, FALSE, "cap_list")

\* a liveness test answered from the registry
windowNamesIncludes_Registry(o) == o.name \in DOMAIN activeWindows
\* lines 444, 550 and 678: windowNames.includes(name), windowNames being the
\* lines of the list-windows reply just received
windowNamesIncludes(o) == o.name \in o.ret.names

\* the listing of a call: did it show the name
Seen(o) == IF o.name \in o.ret.names THEN "live" ELSE "absent"
Deregister_Keep(n) == activeWindows
\* activeWindows.delete(name) of the not-found paths, lines 446 and 551
Deregister(n) == Del(activeWindows, n)

\* lines 442-464
CaptureAfterList(s) ==
    LET o == [ops[s] EXCEPT !.seen = Seen(ops[s])]
        live == windowNamesIncludes(o)
    IN /\ o.pc = "cap_list" /\ Replied(o)
       /\ activeWindows' = IF live THEN activeWindows ELSE Deregister(o.name)
       /\ SetOp(s, IF live THEN Await(o, "cap_pane", "capture-pane")
                   ELSE Finished(o, [Res("window_not_found", "-") EXCEPT !.available = o.ret.names]))
       /\ UNCHANGED <<tmuxEnv, variant, windows, nextId, lastWarnedInput, locks, lockLog>>

\* a capture that registers the window anew whether it is tracked or not
LazyRegister_Overwrite(n) == Put(activeWindows, n, [lockName |-> NoName, isCodingAgent |-> FALSE])
\* lines 492-495 (variant 1200-1203): a window not yet tracked is registered without a lock
LazyRegister(n) ==
    IF n \notin DOMAIN activeWindows
    THEN Put(activeWindows, n, [lockName |-> NoName, isCodingAgent |-> FALSE])
    ELSE activeWindows

\* lines 466-504
CaptureAfterPane(s) ==
    LET o == ops[s]
        ok == o.ret.st = "ok"
    IN /\ o.pc = "cap_pane" /\ Replied(o)
       /\ activeWindows' = IF ok THEN LazyRegister(o.name) ELSE activeWindows
       /\ SetOp(s, IF ok THEN Finished(o, [Res("-", "captured") EXCEPT !.name = o.name])
                   ELSE Finished(o, Res("capture_failed", "-")))
       /\ UNCHANGED <<tmuxEnv, variant, windows, nextId, lastWarnedInput, locks, lockLog>>

\* tmux-send execute, lines 528-547
TmuxSend(s, limit) ==
    \E n \in TargetNames, enter \in BOOLEAN : BeginListed(s, limit, "send", n, enter, "snd_list")

\* an interference check that does not look at enter
isCodingAgentAndEnter_IgnoreEnter(n, enter) == n \in DOMAIN activeWindows /\ activeWindows[n].isCodingAgent
\* lines 564-565: windowInfo?.isCodingAgent && enter
isCodingAgentAndEnter(n, enter) ==
    /\ n \in DOMAIN activeWindows
    /\ activeWindows[n].isCodingAgent
    /\ enter

\* lines 548-570 and 608-614
SendAfterList(s) ==
    LET o == [ops[s] EXCEPT !.seen = Seen(ops[s])]
        live == windowNamesIncludes(o)
        check == isCodingAgentAndEnter(o.name, o.enter)
    IN /\ o.pc = "snd_list" /\ Replied(o)
       /\ activeWindows' = IF live THEN activeWindows ELSE Deregister(o.name)
       /\ SetOp(s, IF ~live THEN Finished(o, Res("window_not_found", "-"))
                   ELSE IF check THEN Await(o, "snd_check", "capture-pane")
                   ELSE AwaitSendKeys(o))
       /\ UNCHANGED <<tmuxEnv, variant, windows, nextId, lastWarnedInput, locks, lockLog>>

\* detectPiInputText applied to the capture: the text in the input box, if any
\* lines 571-614
\* a check that never recognises the text it warned about
SameAsWarned_Never(n, existingInput) == FALSE
\* line 573: the text of the last warning for the name, none as the empty text
previouslyWarned(n) == IF n \in DOMAIN lastWarnedInput THEN lastWarnedInput[n] ELSE NoText
\* line 574: the input box shows the very text of the last warning
SameAsWarned(n, existingInput) == previouslyWarned(n) = existingInput
\* a warning that is not remembered
WarnedInput_Forget(n, existingInput) == lastWarnedInput
\* line 579: the cache after the warning about existingInput in window n
WarnedInput(n, existingInput) == Put(lastWarnedInput, n, existingInput)

\* a detection that reads the capture whatever its code
capResultOk_Always(code) == TRUE
\* line 571: capResult.code === 0
capResultOk(code) == code = "ok"

SendAfterCheck(s) ==
    LET o == ops[s]
        existingInput == o.ret.input
        found == capResultOk(o.ret.st) /\ existingInput # NoText
        same == SameAsWarned(o.name, existingInput)
        o1 == [o EXCEPT !.input = IF o.ret.st = "ok" THEN existingInput ELSE NoText,
                        !.cached = IF o.name \in DOMAIN lastWarnedInput THEN lastWarnedInput[o.name] ELSE NoText]
    IN /\ o.pc = "snd_check" /\ Replied(o)
       /\ lastWarnedInput' = IF ~capResultOk(o.ret.st) THEN lastWarnedInput
                             ELSE IF found /\ ~same THEN WarnedInput(o.name, existingInput)
                             ELSE Del(lastWarnedInput, o.name)
       /\ SetOp(s, IF found /\ ~same
                   THEN Finished(o1, [Res("human_typing_detected", "warning") EXCEPT !.name = o.name, !.input = existingInput])
                   ELSE AwaitSendKeys(o1))
       /\ UNCHANGED <<tmuxEnv, variant, windows, nextId, activeWindows, locks, lockLog>>

SendResult_AlwaysSent(o, code) == Finished(o, [Res("-", "sent") EXCEPT !.name = o.name])
\* lines 616-634
SendResult(o, code) ==
    IF code = "ok" THEN Finished(o, [Res("-", "sent") EXCEPT !.name = o.name])
    ELSE Finished(o, Res("send_failed", "-"))

SendAfterKeys(s) ==
    LET o == [ops[s] EXCEPT !.saved = ops[s].ret.st]
    IN /\ o.pc = "snd_keys" /\ Replied(o)
       /\ SetOp(s, SendResult(o, o.ret.st))
       /\ UNCHANGED <<tmuxEnv, variant, windows, nextId, activeWindows, lastWarnedInput, locks, lockLog>>

\* tmux-kill execute, lines 657-676
TmuxKill(s, limit) ==
    \E n \in TargetNames : BeginListed(s, limit, "kill", n, FALSE, "k_list")

ExistedFalse_AsError(o) == Finished(o, Res("window_not_found", "-"))
ExistedFalse(o) == Finished(o, [Res("-", "existed_false") EXCEPT !.name = o.name])
KillResult_AlwaysKilled(o, code, lockReleased, releasedLockName) ==
    Finished(o, [Res("-", "killed") EXCEPT !.name = o.name, !.lockReleased = lockReleased, !.lockName = releasedLockName])
KillResult(o, code, lockReleased, releasedLockName) ==
    IF code # "ok" THEN Finished(o, Res("kill_failed", "-"))
    ELSE Finished(o, [Res("-", "killed") EXCEPT !.name = o.name, !.lockReleased = lockReleased, !.lockName = releasedLockName])

\* lines 677-700
KillAfterList(s) ==
    LET o == ops[s]
        live == windowNamesIncludes(o)
        lockName == HeldLock(o.name)
        o1 == [o EXCEPT !.seen = Seen(o)]
    IN /\ o.pc = "k_list" /\ Replied(o)
       /\ IF live
          THEN /\ SetOp(s, Await(o1, "k_kill", "kill-window"))
               /\ UNCHANGED <<activeWindows, lastWarnedInput>>
          ELSE IF lockName # NoName
          THEN /\ SetOp(s, Await([o1 EXCEPT !.lock = lockName], "k_relabsent", "releaseLock"))
               /\ UNCHANGED <<activeWindows, lastWarnedInput>>
          ELSE /\ SetOp(s, ExistedFalse(o1))
               /\ activeWindows' = Del(activeWindows, o.name)
               /\ lastWarnedInput' = Del(lastWarnedInput, o.name)
       /\ UNCHANGED <<tmuxEnv, variant, windows, nextId, locks, lockLog>>

\* lines 683-695, after the release
KillAfterReleaseAbsent(s) ==
    LET o == ops[s]
    IN /\ o.pc = "k_relabsent" /\ Replied(o)
       /\ SetOp(s, ExistedFalse(o))
       /\ activeWindows' = Del(activeWindows, o.name)
       /\ lastWarnedInput' = Del(lastWarnedInput, o.name)
       /\ UNCHANGED <<tmuxEnv, variant, windows, nextId, locks, lockLog>>

\* lines 702-713 (no lock recorded: on to 713-739)
KillAfterKillWindow(s) ==
    LET o == ops[s]
        lockName == HeldLock(o.name)
    IN /\ o.pc = "k_kill" /\ Replied(o)
       /\ lastWarnedInput' = Del(lastWarnedInput, o.name)
       /\ IF lockName # NoName
          THEN /\ SetOp(s, Await([o EXCEPT !.lock = lockName, !.saved = o.ret.st], "k_rellive", "releaseLock"))
               /\ UNCHANGED activeWindows
          ELSE /\ SetOp(s, KillResult([o EXCEPT !.saved = o.ret.st], o.ret.st, FALSE, NoName))
               /\ activeWindows' = Del(activeWindows, o.name)
       /\ UNCHANGED <<tmuxEnv, variant, windows, nextId, locks, lockLog>>

\* lines 710-739, after the release
KillAfterReleaseLive(s) ==
    LET o == ops[s]
    IN /\ o.pc = "k_rellive" /\ Replied(o)
       /\ SetOp(s, KillResult(o, o.saved, o.ret.released, o.lock))
       /\ activeWindows' = Del(activeWindows, o.name)
       /\ UNCHANGED <<tmuxEnv, variant, windows, nextId, lastWarnedInput, locks, lockLog>>

\* /tmux-list handler, lines 885-898
TmuxList(s, limit) ==
    BeginListed(s, limit, "list", NoName, FALSE, "ls_list")

ListAfterList(s) ==
    LET o == ops[s]
    IN /\ o.pc = "ls_list" /\ Replied(o)
       /\ SetOp(s, Finished(o, [Res("-", "listed") EXCEPT !.available = o.ret.names]))
       /\ UNCHANGED <<tmuxEnv, variant, windows, nextId, activeWindows, lastWarnedInput, locks, lockLog>>

\* a shutdown that also removes the lock files
Shutdown_ReleasingLocks(limit) ==
    /\ NumInFlight < limit
    /\ activeWindows' = EmptyMap
    /\ lastWarnedInput' = EmptyMap
    /\ lastDone' = Other
    /\ lastSend' = EmptyMap
    /\ ops' = [s \in Slots |-> IF ops[s].pc = "done" THEN IdleOp ELSE ops[s]]
    /\ locks' = EmptyMap
    /\ UNCHANGED <<tmuxEnv, variant, windows, nextId, lockLog>>
\* session_shutdown handler, lines 902-905; the session is over, so the
\* results of its finished calls are dropped with it
Shutdown(limit) ==
    /\ NumInFlight < limit
    /\ activeWindows' = EmptyMap
    /\ lastWarnedInput' = EmptyMap
    /\ lastDone' = Other
    /\ lastSend' = EmptyMap
    /\ ops' = [s \in Slots |-> IF ops[s].pc = "done" THEN IdleOp ELSE ops[s]]
    /\ UNCHANGED <<tmuxEnv, variant, windows, nextId, locks, lockLog>>

\* ------------------------------------------------- failures, cancellation
\* a tmux call that returns a non-zero code and changes nothing
TmuxFails(s) ==
    /\ Pending(s, TmuxPcs)
    /\ Reply(s, FailRet)
    /\ UNCHANGED <<tmuxEnv, variant, windows, nextId, activeWindows, lastWarnedInput, locks, lockLog, lastDone, lastSend>>

\* createLock returning nothing: lockResult?.name ?? null, line 137
CreateLockReturnsNull(s) ==
    /\ Pending(s, {"cw_lock"})
    /\ Reply(s, OkRet)
    /\ UNCHANGED <<tmuxEnv, variant, windows, nextId, activeWindows, lastWarnedInput, locks, lockLog, lastDone, lastSend>>

\* the caller aborts the tool call's signal
Cancel(s) ==
    /\ InFlight(s) /\ ~ops[s].aborted
    /\ ops[s].op # "list"
    /\ ops' = [ops EXCEPT ![s].aborted = TRUE]
    /\ UNCHANGED <<tmuxEnv, variant, windows, nextId, activeWindows, lastWarnedInput, locks, lockLog, lastDone, lastSend>>

\* pi.exec(..., {signal}) with the signal aborted: the call is abandoned and raises
ExecRaises(s) ==
    /\ Pending(s, TmuxPcs) /\ ops[s].aborted
    /\ Reply(s, [NoRet EXCEPT !.st = "raise"])
    /\ UNCHANGED <<tmuxEnv, variant, windows, nextId, activeWindows, lastWarnedInput, locks, lockLog, lastDone, lastSend>>

\* the catch of each execute: lines 408-410, 505-516, 635-646, 740-751, 876-878
CatchException(s) ==
    /\ ops[s].ret.st = "raise"
    /\ SetOp(s, Finished(ops[s], Res("exception", "-")))
    /\ UNCHANGED <<tmuxEnv, variant, windows, nextId, activeWindows, lastWarnedInput, locks, lockLog>>

\* ------------------------------------------------------- specifications
Calls(limit) ==
    \/ \E s \in Slots : TmuxBash(s, limit, MaxWindows)
    \/ \E s \in Slots : TmuxCodingAgent(s, limit, MaxWindows)
    \/ \E s \in Slots : TmuxCapture(s, limit)
    \/ \E s \in Slots : TmuxSend(s, limit)
    \/ \E s \in Slots : TmuxKill(s, limit)
    \/ \E s \in Slots : TmuxList(s, limit)
    \/ Shutdown(limit)

Replies ==
    \/ \E s \in Slots : TmuxListWindows(s)
    \/ \E s \in Slots : TmuxNewWindow(s)
    \/ \E s \in Slots : TmuxSetOption(s)
    \/ \E s \in Slots : TmuxCapturePane(s)
    \/ \E s \in Slots : TmuxSendKeys(s)
    \/ \E s \in Slots : TmuxKillWindow(s)
    \/ \E s \in Slots : CreateLock(s)
    \/ \E s \in Slots : ReleaseLock(s)
    \/ \E s \in Slots : TimerFires(s)

Resumes ==
    \/ \E s \in Slots : CreateWindowAfterList(s)
    \/ \E s \in Slots : CreateWindowAfterLock(s)
    \/ \E s \in Slots : CreateWindowAfterNew(s)
    \/ \E s \in Slots : CreateWindowAfterSet(s)
    \/ \E s \in Slots : AgentAfterPoll(s)
    \/ \E s \in Slots : AgentAfterSleep(s)
    \/ \E s \in Slots : AgentAfterFinal(s)
    \/ \E s \in Slots : CaptureAfterList(s)
    \/ \E s \in Slots : CaptureAfterPane(s)
    \/ \E s \in Slots : SendAfterList(s)
    \/ \E s \in Slots : SendAfterCheck(s)
    \/ \E s \in Slots : SendAfterKeys(s)
    \/ \E s \in Slots : KillAfterList(s)
    \/ \E s \in Slots : KillAfterReleaseAbsent(s)
    \/ \E s \in Slots : KillAfterKillWindow(s)
    \/ \E s \in Slots : KillAfterReleaseLive(s)
    \/ \E s \in Slots : ListAfterList(s)

Environment ==
    \/ \E w \in windows : CommandExit(w)
    \/ \E w \in windows : ExternalClose(w)
    \/ \E n \in ExternalNames : ExternalNewWindow(n)

Faults ==
    \/ \E s \in Slots : TmuxFails(s)
    \/ \E s \in Slots : CreateLockReturnsNull(s)
    \/ \E s \in Slots : Cancel(s)
    \/ \E s \in Slots : ExecRaises(s)
    \/ \E s \in Slots : CatchException(s)
    \/ \E s \in Slots : CreateWindowAfterRelease(s)

\* one tool call at a time, tmux answering truthfully
Next == Calls(1) \/ Replies \/ Resumes \/ Environment
Spec == Init /\ [][Next]_vars

\* one tool call at a time; tmux calls may fail, the caller may cancel;
\* nobody else touches the tmux server
NextFault == Calls(1) \/ Replies \/ Resumes \/ Faults
SpecFault == Init /\ [][NextFault]_vars

\* spawns with no kill and no window exit in between (the rename variant):
\* one tool call at a time, tmux answering truthfully, nobody else on the server
SpawnCalls ==
    \/ \E s \in Slots : TmuxBash(s, 1, MaxSpawns)
    \/ \E s \in Slots : TmuxCodingAgent(s, 1, MaxSpawns)
    \/ \E s \in Slots : TmuxCapture(s, 1)
    \/ \E s \in Slots : TmuxSend(s, 1)
    \/ \E s \in Slots : TmuxList(s, 1)
    \/ Shutdown(1)

SpawnSteps ==
    \/ \E s \in Slots : TmuxListWindows(s)
    \/ \E s \in Slots : TmuxNewWindow(s)
    \/ \E s \in Slots : TmuxSetOption(s)
    \/ \E s \in Slots : TmuxCapturePane(s)
    \/ \E s \in Slots : TmuxSendKeys(s)
    \/ \E s \in Slots : CreateLock(s)
    \/ \E s \in Slots : TimerFires(s)
    \/ \E s \in Slots : CreateWindowAfterList(s)
    \/ \E s \in Slots : CreateWindowAfterLock(s)
    \/ \E s \in Slots : CreateWindowAfterNew(s)
    \/ \E s \in Slots : CreateWindowAfterSet(s)
    \/ \E s \in Slots : AgentAfterPoll(s)
    \/ \E s \in Slots : AgentAfterSleep(s)
    \/ \E s \in Slots : AgentAfterFinal(s)
    \/ \E s \in Slots : CaptureAfterList(s)
    \/ \E s \in Slots : CaptureAfterPane(s)
    \/ \E s \in Slots : SendAfterList(s)
    \/ \E s \in Slots : SendAfterCheck(s)
    \/ \E s \in Slots : SendAfterKeys(s)
    \/ \E s \in Slots : ListAfterList(s)

InitRename == Init /\ tmuxEnv /\ variant = "rename"
NextSpawn == SpawnCalls \/ SpawnSteps
SpecSpawn == InitRename /\ [][NextSpawn]_vars

\* two tool calls interleaving at their awaits (the rename variant; tmux
\* answers truthfully and nobody else touches the server)
ConcCalls ==
    \/ \E s \in Slots : TmuxBash(s, Cardinality(Slots), MaxWindows)
    \/ \E s \in Slots : TmuxCapture(s, Cardinality(Slots))
    \/ \E s \in Slots : TmuxKill(s, Cardinality(Slots))

ConcSteps ==
    \/ \E s \in Slots : TmuxListWindows(s)
    \/ \E s \in Slots : TmuxNewWindow(s)
    \/ \E s \in Slots : TmuxSetOption(s)
    \/ \E s \in Slots : TmuxCapturePane(s)
    \/ \E s \in Slots : TmuxKillWindow(s)
    \/ \E s \in Slots : CreateLock(s)
    \/ \E s \in Slots : ReleaseLock(s)
    \/ \E s \in Slots : CreateWindowAfterList(s)
    \/ \E s \in Slots : CreateWindowAfterLock(s)
    \/ \E s \in Slots : CreateWindowAfterNew(s)
    \/ \E s \in Slots : CreateWindowAfterSet(s)
    \/ \E s \in Slots : CaptureAfterList(s)
    \/ \E s \in Slots : CaptureAfterPane(s)
    \/ \E s \in Slots : KillAfterList(s)
    \/ \E s \in Slots : KillAfterReleaseAbsent(s)
    \/ \E s \in Slots : KillAfterKillWindow(s)
    \/ \E s \in Slots : KillAfterReleaseLive(s)

NextConc == ConcCalls \/ ConcSteps
SpecConc == InitRename /\ [][NextConc]_vars

\* ------------------------------------------------------------- properties
IsDone(s, kinds) == ops[s].pc = "done" /\ ops[s].op \in kinds

\* the name of the k-th spawn of base: base, base-2, base-3, ...
NameInOrder(base, k) == IF k = 1 THEN base ELSE Append(base, k)

\* C1: successful spawns that all request the same base name, with no kill and
\* no window exit in between, return base, base-2, base-3, ... in order of
\* issuance (window ids count the spawns issued), and the names are pairwise
\* distinct.
C1_SpawnNamesInOrder ==
    /\ \A w \in windows : \E base \in SpawnNames : w.name = NameInOrder(base, w.id)
    /\ \A w1 \in windows, w2 \in windows : w1.name = w2.name => w1.id = w2.id
    /\ \A s \in Slots :
          (IsDone(s, {"bash", "agent"}) /\ ops[s].res.error = "-") =>
              /\ ops[s].res.name = NameInOrder(ops[s].name, nextId - 1)
              /\ \E w \in windows : w.id = nextId - 1 /\ w.name = ops[s].res.name
C1_Witness ==
    /\ nextId - 1 = MaxSpawns
    /\ \E s \in Slots :
          /\ IsDone(s, {"bash", "agent"})
          /\ ops[s].res.name = Append(ops[s].name, MaxSpawns)
    /\ Cardinality(windows) = MaxSpawns

\* C2: in every reachable state no two live windows carry the same name, also
\* when two spawns of one base name interleave at their awaits.
C2_NoDuplicateWindowNames ==
    \A w1 \in windows, w2 \in windows : w1.name = w2.name => w1.id = w2.id

\* a held lock is in use while its window's command runs, a call in flight
\* works on it, or the registry still records it
LockInUse(L) ==
    \/ \E w \in windows : w.id = locks[L] /\ w.running
    \/ \E s \in Slots : InFlight(s) /\ (ops[s].wid = locks[L] \/ ops[s].lock = L)
    \/ \E n \in DOMAIN activeWindows : activeWindows[n].lockName = L

\* C3: once a session created with a lock is terminated (command exited,
\* killed, or window vanished and name deregistered) its lock is no longer
\* held: every held lock belongs to a session that is not terminated.
C3_NoLockOutlivesSession ==
    \A L \in DOMAIN locks : LockInUse(L)

\* the session of window id wid can no longer release its lock
Terminated(wid) ==
    /\ ~ \E w \in windows : w.id = wid /\ w.running
    /\ ~ \E s \in Slots : InFlight(s) /\ (ops[s].wid = wid \/ ops[s].lock = lockLog[wid].lock)
    /\ ~ \E n \in DOMAIN activeWindows : activeWindows[n].lockName = lockLog[wid].lock

\* C4: the lock of a session created with a lock is released exactly once, by
\* the command's cleanup or by an explicit kill: never by both, never by the
\* spawn path, and never by neither once the session is terminated.
C4_ReleasedExactlyOnce ==
    \A wid \in DOMAIN lockLog :
        lockLog[wid].ok =>
            /\ "spawn" \notin lockLog[wid].rel
            /\ Cardinality(lockLog[wid].rel) <= 1
            /\ Terminated(wid) => Cardinality(lockLog[wid].rel) = 1

\* C5: when tmux new-window returns a non-zero code, the spawn releases the
\* lock it acquired (if any), fails with create_failed, and adds no registry
\* entry for the name.
C5_CreateFailedReleasesLock ==
    \A s \in Slots :
        (IsDone(s, {"bash", "agent"}) /\ ops[s].saved = "fail") =>
            /\ ops[s].res.error = "create_failed"
            /\ ops[s].lock # NoName => ("releaseLock" \in ops[s].calls /\ ops[s].lock \notin DOMAIN locks)
            /\ ops[s].actual \notin DOMAIN activeWindows
C5_Witness ==
    \E s \in Slots :
        /\ IsDone(s, {"bash"}) /\ ops[s].saved = "fail"
        /\ ops[s].lock # NoName /\ "releaseLock" \in ops[s].calls
        /\ ops[s].res.error = "create_failed"

\* C6: a spawn whose tmux call raises on cancellation after the lock was
\* acquired leaves no held lock and no registry entry.
C6_CancelledSpawnLeavesNothing ==
    \A s \in Slots :
        (IsDone(s, {"bash", "agent"}) /\ ops[s].res.error = "exception") =>
            /\ ops[s].lock # NoName => ops[s].lock \notin DOMAIN locks
            /\ ops[s].actual \notin DOMAIN activeWindows

\* C7: with TMUX absent every operation fails with no_tmux, issues no tmux
\* call, touches no lock, and leaves the registry and the interference cache
\* as they were.
C7_UnavailableWithoutTmux ==
    ~tmuxEnv =>
        /\ windows = {} /\ locks = EmptyMap /\ lockLog = EmptyMap
        /\ activeWindows = EmptyMap /\ lastWarnedInput = EmptyMap
        /\ \A s \in Slots :
              /\ ~InFlight(s)
              /\ ops[s].pc = "done" => (ops[s].res.error = "no_tmux" /\ ops[s].calls = {})
C7_Witness ==
    ~tmuxEnv /\ IsDone(1, {"agent"}) /\ ops[1].res.error = "no_tmux"

\* C8: a tmux-kill that directly follows a tmux-kill of the same name which
\* reported killed reports existed:false and is not an error.
C8_SecondKillExistedFalse ==
    \A s \in Slots :
        (IsDone(s, {"kill"}) /\ ops[s].prev = [NoDone EXCEPT !.op = "kill", !.name = ops[s].name, !.kind = "killed"]) =>
            ops[s].res.kind = "existed_false" /\ ops[s].res.error = "-"
C8_Witness ==
    \E s \in Slots :
        /\ IsDone(s, {"kill"}) /\ ops[s].prev = [NoDone EXCEPT !.op = "kill", !.name = ops[s].name, !.kind = "killed"]
        /\ ops[s].res.kind = "existed_false"

\* C9: tmux-kill of a name its listing shows live issues kill-window, releases
\* the lock the registry holds for the name whatever kill-window returned,
\* removes the registry entry and the cached warning, and reports
\* kill_failed exactly when kill-window returned non-zero, else killed.
C9_KillLive ==
    \A s \in Slots :
        (IsDone(s, {"kill"}) /\ ops[s].seen = "live") =>
            /\ "kill-window" \in ops[s].calls
            /\ ops[s].held # NoName => ("releaseLock" \in ops[s].calls /\ ops[s].held \notin DOMAIN locks)
            /\ ops[s].name \notin DOMAIN activeWindows
            /\ ops[s].name \notin DOMAIN lastWarnedInput
            /\ ops[s].res.error = "kill_failed" <=> ops[s].saved = "fail"
            /\ ops[s].saved = "ok" => (ops[s].res.kind = "killed" /\ ops[s].res.error = "-")
C9_Witness ==
    \E s \in Slots :
        /\ IsDone(s, {"kill"}) /\ ops[s].seen = "live"
        /\ ops[s].held # NoName /\ ops[s].saved = "fail"
        /\ ops[s].res.error = "kill_failed"

\* C10: tmux-kill of a name absent from its listing returns existed:false
\* without error, issues no kill-window, releases the lock the registry
\* records for the name, and removes the registry entry and cached warning.
C10_KillAbsent ==
    \A s \in Slots :
        (IsDone(s, {"kill"}) /\ ops[s].seen = "absent") =>
            /\ ops[s].res.kind = "existed_false" /\ ops[s].res.error = "-"
            /\ "kill-window" \notin ops[s].calls
            /\ ops[s].held # NoName => ("releaseLock" \in ops[s].calls /\ ops[s].held \notin DOMAIN locks)
            /\ ops[s].name \notin DOMAIN activeWindows
            /\ ops[s].name \notin DOMAIN lastWarnedInput
C10_Witness ==
    \E s \in Slots :
        /\ IsDone(s, {"kill"}) /\ ops[s].seen = "absent"
        /\ ops[s].held # NoName /\ "releaseLock" \in ops[s].calls
        /\ ops[s].res.kind = "existed_false"

\* C11: tmux-capture of a name absent from its listing removes the name from
\* the registry, issues no capture-pane, and fails with window_not_found
\* carrying exactly the names the listing returned.
C11_CaptureAbsent ==
    \A s \in Slots :
        (IsDone(s, {"capture"}) /\ ops[s].seen = "absent") =>
            /\ ops[s].res.error = "window_not_found"
            /\ ops[s].calls = {"list-windows"}
            /\ ops[s].name \notin DOMAIN activeWindows
            /\ ops[s].res.available = ops[s].listed
            /\ ops[s].name \notin ops[s].res.available
C11_Witness ==
    \E s \in Slots :
        /\ IsDone(s, {"capture"}) /\ ops[s].seen = "absent"
        /\ ops[s].tracked /\ ops[s].res.available # {}
        /\ ops[s].res.error = "window_not_found"

\* C12: tmux-send of a name absent from its listing removes the name from the
\* registry, issues no send-keys, and fails with window_not_found; tmux-send
\* whose send-keys returns non-zero fails with send_failed, and the step that
\* returns it leaves the registry as it was.
C12_SendAbsentOrFailed ==
    /\ [](\A s \in Slots :
            /\ (IsDone(s, {"send"}) /\ ops[s].seen = "absent") =>
                  /\ ops[s].res.error = "window_not_found"
                  /\ "send-keys" \notin ops[s].calls
                  /\ ops[s].name \notin DOMAIN activeWindows
            /\ (IsDone(s, {"send"}) /\ ops[s].saved = "fail") =>
                  /\ ops[s].res.error = "send_failed"
                  /\ ops[s].seen = "live")
    /\ [][\A s \in Slots :
            (ops[s].pc = "snd_keys" /\ ops[s].ret.st = "fail" /\ ops'[s].pc = "done") =>
                /\ ops'[s].res.error = "send_failed"
                /\ activeWindows' = activeWindows]_vars
C12_Witness ==
    \E s \in Slots :
        /\ IsDone(s, {"send"}) /\ ops[s].saved = "fail"
        /\ ops[s].tracked /\ ops[s].name \in DOMAIN activeWindows
        /\ ops[s].res.error = "send_failed"

\* C13: for a coding-agent session and sends with enter: a send whose check
\* finds text the cache does not hold for the session is blocked and the text
\* is cached; a send whose check finds the very text the cache holds (the
\* second of two consecutive sends seeing "hello") is forwarded and the cache
\* entry of the session is cleared; so a third send seeing "hello world" is
\* blocked again and caches the new text
Checked(s) == IsDone(s, {"send"}) /\ ops[s].input # NoText
Blocked(s) ==
    /\ ops[s].res.error = "human_typing_detected"
    /\ "send-keys" \notin ops[s].calls
    /\ ops[s].name \in DOMAIN lastWarnedInput
    /\ lastWarnedInput[ops[s].name] = ops[s].input
Forwarded(s) ==
    /\ ops[s].res.error # "human_typing_detected"
    /\ "send-keys" \in ops[s].calls
    /\ ops[s].name \notin DOMAIN lastWarnedInput
C13_Debounce ==
    \A s \in Slots :
        Checked(s) =>
            /\ (ops[s].cached # ops[s].input) => Blocked(s)
            /\ (ops[s].cached = ops[s].input) => Forwarded(s)
            /\ (ops[s].prev = [NoDone EXCEPT !.op = "send", !.name = ops[s].name, !.kind = "blocked", !.text = ops[s].input]) => Forwarded(s)
            /\ (ops[s].prev = [NoDone EXCEPT !.op = "send", !.name = ops[s].name, !.kind = "forwarded", !.text = "hello"] /\ ops[s].input = "hello world") => Blocked(s)
\* the third send of the sequence: it follows a send forwarded while "hello"
\* was shown (itself possible only after a send blocked on "hello")
C13_Witness ==
    \E s \in Slots :
        /\ Checked(s) /\ ops[s].input = "hello world" /\ Blocked(s)
        /\ ops[s].prev = [NoDone EXCEPT !.op = "send", !.name = ops[s].name, !.kind = "forwarded", !.text = "hello"]
        /\ ops[s].cached = NoText

\* C14: whenever tmux-send returns the human-typing-detected advisory, the
\* call issued no send-keys (only the listing and the check's capture), the
\* result carries the text the check found, and the call changed nothing but
\* the cache, which now holds that text for the session
Advised(o) == o.op = "send" /\ o.pc = "done" /\ o.res.error = "human_typing_detected"
C14_AdvisoryOnlyCaches ==
    /\ [](\A s \in Slots :
            Advised(ops[s]) =>
                /\ ops[s].calls = {"list-windows", "capture-pane"}
                /\ ops[s].res.input = ops[s].input
                /\ ops[s].res.input # NoText
                /\ ops[s].res.name = ops[s].name
                /\ ops[s].name \in DOMAIN lastWarnedInput
                /\ lastWarnedInput[ops[s].name] = ops[s].res.input)
    /\ [][\A s \in Slots :
            /\ (ops[s].pc = "snd_list" /\ ops'[s].pc = "snd_check") =>
                    UNCHANGED <<windows, activeWindows, lastWarnedInput, locks, lockLog>>
            /\ (ops[s].pc = "snd_check" /\ Advised(ops'[s])) =>
                    /\ UNCHANGED <<windows, activeWindows, locks, lockLog>>
                    /\ lastWarnedInput' = [n \in DOMAIN lastWarnedInput \cup {ops[s].name} |->
                                                IF n = ops[s].name THEN ops'[s].res.input ELSE lastWarnedInput[n]]]_vars
C14_Witness ==
    \E s \in Slots :
        /\ Advised(ops[s]) /\ ops[s].res.input = "hello world" /\ ops[s].cached = "hello"
        /\ lastWarnedInput[ops[s].name] = "hello world"

\* C15: for a live coding-agent session and sends with enter: (a) a send is
\* not blocked on the very text the preceding send attempt for the session
\* was blocked on; (b) a send whose check found text in the input box issues
\* send-keys only if the preceding send attempt for that session was blocked
\* on exactly that text
BlockedOn(s) == [NoDone EXCEPT !.op = "send", !.name = ops[s].name, !.kind = "blocked", !.text = ops[s].input]
C15_NeverForeverNeverBlind ==
    \A s \in Slots :
        (Checked(s) /\ ops[s].session) =>
            /\ (ops[s].res.error = "human_typing_detected") => ops[s].prev # BlockedOn(s)
            /\ ("send-keys" \in ops[s].calls) => ops[s].prev = BlockedOn(s)

\* C16: a spawn (tmux-bash, tmux-coding-agent) under a name the registry
\* already tracks fails with window_exists, having asked for no lock and
\* created no window; a spawn under a name the registry does not track but a
\* tmux window bears does not fail: it runs under another, free name
C16_TrackedFailsTakenRenamed ==
    \A s \in Slots :
        IsDone(s, {"bash", "agent"}) =>
            /\ ops[s].tracked =>
                    /\ ops[s].res.error = "window_exists"
                    /\ ops[s].calls \cap {"createLock", "new-window"} = {}
            /\ (~ops[s].tracked /\ ops[s].taken) =>
                    /\ ops[s].res.error = "-"
                    /\ ops[s].actual # ops[s].name

\* C18: a successful tmux-coding-agent takes no tmux:<name> lock: it never
\* calls createLock, the registry entry it leaves has no lock name and is
\* marked as a coding agent, and a later tmux-kill of that session calls no
\* releaseLock and reports no lock released
C18_AgentTakesNoLock ==
    \A s \in Slots :
        /\ (IsDone(s, {"agent"}) /\ ops[s].res.kind = "started") =>
                /\ "createLock" \notin ops[s].calls
                /\ ops[s].lock = NoName
                /\ ops[s].actual \in DOMAIN activeWindows
                /\ activeWindows[ops[s].actual].lockName = NoName
                /\ (variant = "rename") => activeWindows[ops[s].actual].isCodingAgent
        /\ (IsDone(s, {"kill"}) /\ ops[s].session /\ (variant = "rename" \/ ops[s].held = NoName)) =>
                /\ "releaseLock" \notin ops[s].calls
                /\ ~ops[s].res.lockReleased
C18_Witness ==
    \E s \in Slots :
        /\ IsDone(s, {"kill"}) /\ ops[s].session /\ ops[s].res.kind = "killed"
        /\ ops[s].tracked /\ "kill-window" \in ops[s].calls

\* C19: the startup poll loop of tmux-coding-agent ends: a capture showing
\* more than 10 non-blank lines ends the call at once, and after a sleep no
\* further poll is issued once the 5 second budget is used up or the signal
\* is aborted; a call whose signal was aborted while it was polling finishes
\* with the started result carrying the output captured so far, not an error
PollPcs == {"ag_poll", "ag_sleep", "ag_final"}
C19_PollLoopEndsCancelReturns ==
    [][\A s \in Slots :
        LET o == ops[s]
            o2 == ops'[s]
        IN (o.op = "agent" /\ o.pc \in PollPcs /\ o2.pc # o.pc) =>
               /\ (o.pc = "ag_poll" /\ o.ret.st = "ok" /\ lineCountOver10(o.ret.out)) => o2.pc = "done"
               /\ (o.pc = "ag_sleep" /\ (o.elapsed >= MaxWait \/ o.aborted)) => o2.pc # "ag_poll"
               /\ (o.aborted /\ o2.pc = "done") => (o2.res.error = "-" /\ o2.res.kind = "started")]_vars

\* C20: the PI_LOCK_NAME given to the child of a spawned window is derived
\* from the resolved window name: a window the spawn named dev-2 carries the
\* identity of dev-2, not of the requested dev; and the agentLock that
\* tmux-coding-agent reports equals the value given to the child
C20_IdentityOfResolvedName ==
    \A s \in Slots :
        IsDone(s, {"bash", "agent"}) =>
            \A w \in windows :
                (w.id = ops[s].wid) =>
                    /\ w.name = ops[s].actual
                    /\ w.env = sanitizeName(ops[s].actual)
                    /\ (ops[s].actual # ops[s].name) => w.env # sanitizeName(ops[s].name)
                    /\ (ops[s].op = "agent" /\ ops[s].res.kind = "started") => ops[s].res.lockName = w.env
C20_Witness ==
    \E s \in Slots, w \in windows :
        /\ IsDone(s, {"agent"}) /\ ops[s].res.kind = "started"
        /\ w.id = ops[s].wid
        /\ ops[s].name = <<"dev">> /\ ops[s].actual = <<"dev", 2>>
        /\ w.env = <<"dev", 2>> /\ ops[s].res.lockName = <<"dev", 2>>

\* ------------------------------------------ the name resolver on its own
\* a spawn of dev resumes from the list-windows of findUniqueWindowName with
\* the first k names of dev, dev-2, dev-3, ... live in tmux (and dev-<pid>
\* too, or not), the first j of them tracked in the registry, and the listing
\* returned with code 0 or not
Taken(k) == {NameInOrder(<<"dev">>, i) : i \in 1..k}
TakenCounts == {0, 1, 2, 3, ProbeLimit - 2, ProbeLimit - 1}
OutsideWindow(i, n) == [id |-> i, name |-> n, running |-> TRUE, remain |-> FALSE, cleanup |-> NoName, agent |-> FALSE, env |-> NoName]
InitResolve ==
    \E k \in TakenCounts, j \in TakenCounts, pidTaken \in BOOLEAN, st \in {"ok", "fail"} :
        /\ tmuxEnv = TRUE
        /\ variant = "rename"
        /\ windows = {OutsideWindow(i, NameInOrder(<<"dev">>, i)) : i \in 1..k}
                        \cup (IF pidTaken THEN {OutsideWindow(ProbeLimit, Append(<<"dev">>, Pid))} ELSE {})
        /\ nextId = ProbeLimit + 2
        /\ activeWindows = [n \in Taken(j) |-> [lockName |-> NoName, isCodingAgent |-> FALSE]]
        /\ lastWarnedInput = EmptyMap
        /\ locks = EmptyMap
        /\ ops = [s \in Slots |->
                    IF s = 1
                    THEN [IdleOp EXCEPT !.op = "bash", !.pc = "cw_list", !.name = <<"dev">>, !.wid = ProbeLimit + 1,
                                        !.calls = {"list-windows"}, !.tracked = j >= 1, !.taken = k >= 1,
                                        !.ret = [NoRet EXCEPT !.st = st, !.names = IF st = "ok" THEN WindowNames ELSE {}]]
                    ELSE IdleOp]
        /\ lockLog = EmptyMap
        /\ lastDone = NoDone
        /\ lastSend = EmptyMap
NextResolve == \E s \in Slots : CreateWindowAfterList(s)
SpecResolve == InitResolve /\ [][NextResolve]_vars

\* the names findUniqueWindowName counts as taken when the call of o resumes
ExistingNames(o) == (IF o.ret.st = "ok" THEN o.ret.names ELSE {}) \cup DOMAIN activeWindows
Resolved(o, o2) == o.pc = "cw_list" /\ o2.pc # "cw_list"

\* C21: the name resolver returns a name whatever list-windows returned, a
\* non-zero code included, and the name it returns, the fallback dev-<pid>
\* after dev and dev-2 .. dev-999 were all taken included, is not among the
\* names it counted as taken
C21_ResolverReturnsFreeName ==
    [][\A s \in Slots :
        Resolved(ops[s], ops'[s]) =>
            /\ ops'[s].pc \in {"cw_lock", "cw_new"}
            /\ ops'[s].actual # NoName
            /\ ops'[s].actual \notin ExistingNames(ops[s])]_vars

\* C23: the name resolver returns the base name unchanged when neither the
\* listing nor the registry has it; otherwise, while some base-n below the
\* probe limit is free, it returns base-n for the smallest n >= 2 that neither
\* has; a name the registry tracks counts as taken though the listing lacks it
C23_SmallestFreeSuffix ==
    [][\A s \in Slots :
        LET o == ops[s]
            ex == ExistingNames(o)
            got == ops'[s].actual
        IN Resolved(o, ops'[s]) =>
            /\ (o.name \notin ex) => got = o.name
            /\ (o.name \in DOMAIN activeWindows) => got # o.name
            /\ (o.name \in ex /\ \E n \in 2..(ProbeLimit - 1) : Append(o.name, n) \notin ex) =>
                    \E n \in 2..(ProbeLimit - 1) :
                        /\ got = Append(o.name, n)
                        /\ got \notin ex
                        /\ \A m \in 2..(n - 1) : Append(o.name, m) \in ex]_vars
\* dev and dev-2 are tracked, tmux lists nothing: the spawn runs as dev-3
C23_Witness ==
    \E s \in Slots :
        /\ ops[s].op = "bash" /\ ops[s].pc = "cw_lock" /\ ops[s].name = <<"dev">>
        /\ WindowNames = {} /\ DOMAIN activeWindows = {<<"dev">>, <<"dev", 2>>}
        /\ ops[s].actual = <<"dev", 3>>

\* ---- the README example: spawn, capture, send C-c, kill of one session ----
Dev == <<"dev">>
Dev2 == Append(Dev, 2)
OtherSessions == {"none", "outside", "captured", "spawned"}
\* the example starts with no session dev; another session dev-2 may exist,
\* made outside, made outside and captured once, or spawned by tmux-bash
InitScenario ==
    \E v \in Variants, other \in OtherSessions :
        LET L == getTmuxLockName(Dev2)
        IN /\ tmuxEnv = TRUE
           /\ variant = v
           /\ windows = IF other = "none" THEN {}
                        ELSE IF other = "spawned"
                        THEN {[id |-> 1, name |-> Dev2, running |-> TRUE, remain |-> TRUE, cleanup |-> L, agent |-> FALSE, env |-> Dev2]}
                        ELSE {OutsideWindow(1, Dev2)}
           /\ nextId = 2
           /\ activeWindows = IF other = "captured" THEN [n \in {Dev2} |-> [lockName |-> NoName, isCodingAgent |-> FALSE]]
                              ELSE IF other = "spawned" THEN [n \in {Dev2} |-> [lockName |-> L, isCodingAgent |-> FALSE]]
                              ELSE EmptyMap
           /\ lastWarnedInput = EmptyMap
           /\ locks = IF other = "spawned" THEN [n \in {L} |-> 1] ELSE EmptyMap
           /\ ops = [s \in Slots |-> IdleOp]
           /\ lockLog = IF other = "spawned" THEN [n \in {1} |-> [lock |-> L, rel |-> {}, ok |-> TRUE]] ELSE EmptyMap
           /\ lastDone = NoDone
           /\ lastSend = EmptyMap

\* README lines 50-57: the four calls of the example, each after the last returned
ScenarioCalls ==
    \/ ops[1].pc = "idle" /\ BeginSpawn(1, 1, 2, "bash", Dev, FALSE)
    \/ IsDone(1, {"bash"}) /\ BeginListed(1, 1, "capture", Dev, FALSE, "cap_list")
    \/ IsDone(1, {"capture"}) /\ BeginListed(1, 1, "send", Dev, FALSE, "snd_list")
    \/ IsDone(1, {"send"}) /\ BeginListed(1, 1, "kill", Dev, FALSE, "k_list")

\* the multiplexer and the lock manager answer, every call succeeding
ScenarioSteps ==
    \/ \E s \in Slots : TmuxListWindows(s)
    \/ \E s \in Slots : CreateLock(s)
    \/ \E s \in Slots : TmuxNewWindow(s)
    \/ \E s \in Slots : TmuxSetOption(s)
    \/ \E s \in Slots : TmuxCapturePane(s)
    \/ \E s \in Slots : TmuxSendKeys(s)
    \/ \E s \in Slots : TmuxKillWindow(s)
    \/ \E s \in Slots : ReleaseLock(s)
    \/ \E s \in Slots : CreateWindowAfterList(s)
    \/ \E s \in Slots : CreateWindowAfterLock(s)
    \/ \E s \in Slots : CreateWindowAfterNew(s)
    \/ \E s \in Slots : CreateWindowAfterSet(s)
    \/ \E s \in Slots : CaptureAfterList(s)
    \/ \E s \in Slots : CaptureAfterPane(s)
    \/ \E s \in Slots : SendAfterList(s)
    \/ \E s \in Slots : SendAfterKeys(s)
    \/ \E s \in Slots : KillAfterList(s)
    \/ \E s \in Slots : KillAfterKillWindow(s)
    \/ \E s \in Slots : KillAfterReleaseLive(s)

NextScenario == ScenarioCalls \/ ScenarioSteps
SpecScenario == InitScenario /\ [][NextScenario]_vars

\* C22: in the example spawn(dev), capture(dev), send(dev, C-c, enter=false),
\* kill(dev), started with no session dev and every call succeeding, each of
\* the four calls returns without error; the send issues list-windows and
\* send-keys only, with no Enter argument and no capture for the interference
\* check; the kill answers killed and leaves no registry entry, no window and
\* no lock for dev
C22_ExampleRunsClean ==
    /\ ops[1].pc = "done" => ops[1].res.error = "-"
    /\ IsDone(1, {"bash"}) => ops[1].actual = Dev /\ Dev \in WindowNames /\ Dev \in DOMAIN activeWindows
    /\ IsDone(1, {"capture"}) => ops[1].res.kind = "captured"
    /\ IsDone(1, {"send"}) => ops[1].res.kind = "sent" /\ ops[1].calls = {"list-windows", "send-keys"}
    /\ IsDone(1, {"kill"}) =>
            /\ ops[1].res.kind = "killed"
            /\ Dev \notin DOMAIN activeWindows
            /\ Dev \notin WindowNames
            /\ getTmuxLockName(Dev) \notin DOMAIN locks
            /\ \A n \in DOMAIN activeWindows : activeWindows[n].lockName # getTmuxLockName(Dev)
\* the kill of the example returned
C22_Witness == IsDone(1, {"kill"}) /\ ops[1].name = Dev /\ ops[1].res.kind = "killed" /\ ops[1].lock = getTmuxLockName(Dev)

\* a step of the operation in slot s of one of the kinds: its call, a reply to it, or its resumption
StepOf(s, kinds) == ops'[s].op \in kinds /\ ops'[s] # ops[s]
\* the capture in slot s returns its text in this step
CaptureReturns(s) == ops[s].pc = "cap_pane" /\ ops'[s].pc = "done" /\ ops'[s].res.kind = "captured"

\* C24: a capture that returns the text of a window not in the registry adds
\* an entry for it with no lock and kind plain command; one that returns the
\* text of a tracked window leaves the registry as it was; no step of a capture
\* changes the interference cache or the locks, and a capture issues no call
\* but list-windows and capture-pane
C24_CaptureRegistersLazily ==
    [][\A s \in Slots :
        /\ CaptureReturns(s) =>
                IF ops[s].name \in DOMAIN activeWindows
                THEN activeWindows' = activeWindows
                ELSE /\ DOMAIN activeWindows' = DOMAIN activeWindows \cup {ops[s].name}
                     /\ activeWindows'[ops[s].name] = [lockName |-> NoName, isCodingAgent |-> FALSE]
                     /\ \A n \in DOMAIN activeWindows : activeWindows'[n] = activeWindows[n]
        /\ StepOf(s, {"capture"}) =>
                /\ lastWarnedInput' = lastWarnedInput
                /\ locks' = locks
                /\ ops'[s].calls \subseteq {"list-windows", "capture-pane"}]_vars
\* a capture of a live window that was not tracked returned, and the window is
\* now tracked without a lock
C24_Witness ==
    \E s \in Slots :
        /\ IsDone(s, {"capture"}) /\ ops[s].res.kind = "captured" /\ ~ops[s].tracked
        /\ ops[s].name \in DOMAIN activeWindows
        /\ activeWindows[ops[s].name] = [lockName |-> NoName, isCodingAgent |-> FALSE]

\* C25: a send starts the interference check only when the registry has the
\* name as a coding agent and enter is true; only a send that started the
\* check issues capture-pane, is answered with the human-typing advisory, or
\* changes the interference cache: a send to a plain command, to a name the
\* registry lacks, or with enter false does none of these
C25_CheckOnlyAgentAndEnter ==
    [][\A s \in Slots :
        StepOf(s, {"send"}) =>
            /\ (ops'[s].pc = "snd_check" /\ ops[s].pc # "snd_check") =>
                    /\ ops[s].pc = "snd_list"
                    /\ ops[s].enter
                    /\ ops[s].name \in DOMAIN activeWindows
                    /\ activeWindows[ops[s].name].isCodingAgent
            /\ ("capture-pane" \in ops'[s].calls) =>
                    ops'[s].pc = "snd_check" \/ (ops[s].op = "send" /\ "capture-pane" \in ops[s].calls)
            /\ (lastWarnedInput' # lastWarnedInput \/ ops'[s].res.error = "human_typing_detected") =>
                    ops[s].pc = "snd_check"
            /\ ~ops'[s].enter =>
                    /\ "capture-pane" \notin ops'[s].calls
                    /\ ops'[s].res.error # "human_typing_detected"
                    /\ lastWarnedInput' = lastWarnedInput]_vars
\* a send without Enter to a tracked coding agent was forwarded with no capture
C25_Witness ==
    \E s \in Slots :
        /\ IsDone(s, {"send"}) /\ ops[s].res.kind = "sent"
        /\ ops[s].calls \cap {"capture-pane"} = {}
        /\ ops[s].name \in DOMAIN activeWindows
        /\ ~ops[s].enter /\ activeWindows[ops[s].name].isCodingAgent

\* the positions of a coding-agent spawn from which the poll loop is left
LoopPcs == {"cw_set", "ag_poll", "ag_sleep"}
\* the text capturedOutput holds when the step from o is taken
HeldOutput(o) ==
    IF o.pc = "cw_set" THEN "empty"
    ELSE IF o.pc \in {"ag_poll", "ag_final"} /\ o.ret.st = "ok" THEN o.ret.out
    ELSE o.out

\* C26: when a coding-agent spawn leaves its poll loop with at most 10
\* non-blank lines held (time out, cancellation, captures that failed) it
\* issues one more capture-pane, and after that capture it returns without
\* another; when it leaves the loop on a capture of more than 10 non-blank
\* lines it returns at once with no further capture; the lines are counted on
\* the text as captured, polls keep that text, and the text returned is the
\* last text held with the help block stripped
C26_OneFinalCaptureStripOnce ==
    [][\A s \in Slots :
        LET o == ops[s]
            o2 == ops'[s]
        IN (o.op = "agent" /\ o2.op = "agent" /\ o2.pc # o.pc /\ o2.res.error = "-") =>
            /\ (o.pc \in LoopPcs /\ o2.pc \in {"ag_final", "done"}) =>
                    IF lineCountOver10(HeldOutput(o))
                    THEN /\ o.pc = "ag_poll"
                         /\ o2.pc = "done"
                         /\ o2.res.output = stripStartupHelp(HeldOutput(o))
                    ELSE /\ o2.pc = "ag_final"
                         /\ o2.ret.st = "none"
                         /\ "capture-pane" \in o2.calls
                         /\ o2.out = HeldOutput(o)
            /\ (o.pc = "ag_poll" /\ o2.pc = "ag_sleep") => o2.out = HeldOutput(o)
            /\ (o.pc = "ag_final") =>
                    /\ o2.pc = "done"
                    /\ o2.res.output = stripStartupHelp(HeldOutput(o))]_vars
\* the loop timed out on a short text, the one final capture was issued and
\* shows more than 10 lines with the help block
C26_Witness ==
    \E s \in Slots :
        /\ ops[s].op = "agent" /\ ops[s].pc = "ag_final"
        /\ ops[s].elapsed >= MaxWait /\ ~ops[s].aborted /\ ops[s].out = "few"
        /\ ops[s].ret.st = "ok" /\ ops[s].ret.out = "banner"

\* a step of the session_shutdown handler: no call is in flight and the
\* finished call records are dropped
ShutdownStep ==
    /\ \A s \in Slots : ~InFlight(s)
    /\ \E s \in Slots : ops[s].pc = "done"
    /\ \A s \in Slots : ops'[s].pc = "idle"

\* C27: shutdown leaves the registry and the interference cache empty and
\* changes nothing else: the windows, the locks and the record of releases
\* are as before, and no call to tmux or to the lock manager is pending after it
C27_ShutdownOnlyClears ==
    [][ShutdownStep =>
        /\ activeWindows' = EmptyMap
        /\ lastWarnedInput' = EmptyMap
        /\ windows' = windows
        /\ locks' = locks
        /\ lockLog' = lockLog
        /\ tmuxEnv' = tmuxEnv /\ variant' = variant /\ nextId' = nextId
        /\ \A s \in Slots : ops'[s] = IdleOp]_vars
\* after a shutdown a window spawned before it still runs and its lock is
\* still held, while the registry and the cache are empty
C27_Witness ==
    /\ \A s \in Slots : ops[s].pc = "idle"
    /\ activeWindows = EmptyMap /\ lastWarnedInput = EmptyMap
    /\ \E w \in windows : w.running /\ w.cleanup \in DOMAIN locks /\ locks[w.cleanup] = w.id

\* the positions at which kill, send and capture await kill-window, send-keys
\* or capture-pane
ActingPcs == {"k_kill", "snd_keys", "snd_check", "cap_pane"}
ActingCalls == {"kill-window", "send-keys", "capture-pane"}

\* C28: a kill, send or capture that has issued kill-window, send-keys or
\* capture-pane issued list-windows before it and the reply listed the name
\* it addresses; one that answered not found (or existed: false) did so after
\* a list-windows whose reply lacked the name, never on the registry alone
C28_ListedBeforeActing ==
    \A s \in Slots :
        LET o == ops[s]
        IN o.op \in {"kill", "send", "capture"} =>
            /\ (o.pc \in ActingPcs \/ o.calls \cap ActingCalls # {}) =>
                    "list-windows" \in o.calls /\ o.seen = "live"
            /\ (o.pc = "done" /\ (o.res.error = "window_not_found" \/ o.res.kind = "existed_false")) =>
                    /\ "list-windows" \in o.calls /\ o.seen = "absent"
                    /\ o.name \notin o.listed
                    /\ o.calls \cap ActingCalls = {}
\* a kill of a tracked name whose window had gone answered existed: false
\* after a listing that lacked the name
C28_Witness ==
    \E s \in Slots :
        /\ IsDone(s, {"kill"}) /\ ops[s].tracked /\ ops[s].res.kind = "existed_false"
        /\ ops[s].seen = "absent" /\ "list-windows" \in ops[s].calls

\* ---- a send and a kill of the same live session, overlapping ----
RaceSessions == {"bash", "agent"}
\* dev is live and tracked: spawned by tmux-bash with its lock, or by
\* tmux-coding-agent (primary form) without a tmux lock
InitRace ==
    \E v \in Variants, kind \in RaceSessions :
        LET L == getTmuxLockName(Dev)
        IN /\ (kind = "agent" => v = "rename")
           /\ tmuxEnv = TRUE
           /\ variant = v
           /\ windows = {[id |-> 1, name |-> Dev, running |-> TRUE, remain |-> TRUE,
                           cleanup |-> IF kind = "bash" THEN L ELSE NoName, agent |-> kind = "agent", env |-> Dev]}
           /\ nextId = 2
           /\ activeWindows = [n \in {Dev} |-> [lockName |-> IF kind = "bash" THEN L ELSE NoName, isCodingAgent |-> kind = "agent"]]
           /\ lastWarnedInput = EmptyMap
           /\ locks = IF kind = "bash" THEN [n \in {L} |-> 1] ELSE EmptyMap
           /\ ops = [s \in Slots |-> IdleOp]
           /\ lockLog = IF kind = "bash" THEN [n \in {1} |-> [lock |-> L, rel |-> {}, ok |-> TRUE]] ELSE EmptyMap
           /\ lastDone = NoDone
           /\ lastSend = EmptyMap

\* one tmux-send and one tmux-kill of dev, the second begun while the first is in flight
RaceCalls ==
    \/ \E enter \in BOOLEAN : ops[1].pc = "idle" /\ BeginListed(1, 2, "send", Dev, enter, "snd_list")
    \/ ops[1].pc = "idle" /\ BeginListed(1, 2, "kill", Dev, FALSE, "k_list")
    \/ \E enter \in BOOLEAN : ops[2].pc = "idle" /\ ops[1].op = "kill" /\ BeginListed(2, 2, "send", Dev, enter, "snd_list")
    \/ ops[2].pc = "idle" /\ ops[1].op = "send" /\ BeginListed(2, 2, "kill", Dev, FALSE, "k_list")

RaceSteps ==
    \/ \E s \in Slots : TmuxListWindows(s)
    \/ \E s \in Slots : TmuxCapturePane(s)
    \/ \E s \in Slots : TmuxSendKeys(s)
    \/ \E s \in Slots : TmuxKillWindow(s)
    \/ \E s \in Slots : ReleaseLock(s)
    \/ \E s \in Slots : SendAfterList(s)
    \/ \E s \in Slots : SendAfterCheck(s)
    \/ \E s \in Slots : SendAfterKeys(s)
    \/ \E s \in Slots : KillAfterList(s)
    \/ \E s \in Slots : KillAfterKillWindow(s)
    \/ \E s \in Slots : KillAfterReleaseLive(s)

NextRace == RaceCalls \/ RaceSteps
SpecRace == InitRace /\ [][NextRace]_vars

\* C29: a send and a kill of the same live session overlap. The send ends
\* forwarded (send-keys answered while the window was there) or in an error
\* result (send failed, not found; the human-typing advisory is let pass
\* here); the lock of the session is released by nobody but the kill, which
\* releases it at most once and then finds it held; and when both calls have
\* returned the registry has no entry and the
\* interference cache no warning for the name
C29_SendKillRace ==
    /\ \A s \in Slots :
          IsDone(s, {"send"}) =>
              \/ ops[s].res.kind = "sent" /\ ops[s].saved = "ok"
              \/ ops[s].res.error \in {"send_failed", "window_not_found", "human_typing_detected"}
    /\ \A w \in DOMAIN lockLog : lockLog[w].rel \subseteq {"kill"}
    /\ \A s \in Slots :
          /\ ops[s].op = "send" => "releaseLock" \notin ops[s].calls
          /\ (Pending(s, ReleasePcs) \/ (IsDone(s, {"kill"}) /\ "releaseLock" \in ops[s].calls)) =>
                 (1 \in DOMAIN lockLog /\ ops[s].lock = lockLog[1].lock /\ (ops[s].pc = "done" => ops[s].res.lockReleased))
    /\ (\A s \in Slots : ops[s].pc = "done") =>
              /\ Dev \notin DOMAIN activeWindows
              /\ Dev \notin DOMAIN lastWarnedInput

SpawnKinds == {"bash", "agent"}
\* the lock name the lock manager returned to the spawn of window id w, if any
ReturnedLock(w) == IF w \in DOMAIN lockLog THEN lockLog[w].lock ELSE NoName

\* C30: a spawn resolves its name (primary form), then acquires the lock
\* unless told to skip it, then issues new-window, then set-option, and only
\* then writes the registry: it awaits the lock only with a name and before
\* any new-window, issues new-window only after the lock was answered or
\* skipped, issues set-option only after new-window returned code 0, and
\* changes the registry in no step but the one after set-option, where the
\* entry gets the lock name the lock manager returned (none when skipped or
\* when it returned nothing); a spawn that ends create_failed never wrote it
C30_SpawnOrderRegistryLast ==
    [][\A s \in Slots :
        LET o == ops[s]
            o2 == ops'[s]
        IN (o2.op \in SpawnKinds /\ o2 # o) =>
            /\ (o2.pc = "cw_lock" /\ o.pc # "cw_lock") =>
                    /\ ~o2.skip /\ o2.actual # NoName
                    /\ variant = "rename" => (o.pc = "cw_list" /\ Replied(o))
                    /\ o2.calls \cap {"new-window", "set-option"} = {}
            /\ (o2.pc = "cw_new" /\ o.pc # "cw_new") =>
                    /\ o2.actual # NoName
                    /\ IF o2.skip THEN o2.lock = NoName /\ "createLock" \notin o2.calls
                       ELSE o.pc = "cw_lock" /\ Replied(o) /\ o2.lock = ReturnedLock(o.wid)
                    /\ variant = "rename" => "list-windows" \in o2.calls
                    /\ "set-option" \notin o2.calls
            /\ (o2.pc = "cw_set" /\ o.pc # "cw_set") => (o.pc = "cw_new" /\ o.ret.st = "ok")
            /\ (activeWindows' # activeWindows) =>
                    /\ o.pc = "cw_set" /\ Replied(o) /\ o.saved = "ok"
                    /\ {"new-window", "set-option"} \subseteq o.calls
                    /\ DOMAIN activeWindows' = DOMAIN activeWindows \cup {o.actual}
                    /\ activeWindows'[o.actual].lockName = ReturnedLock(o.wid)
                    /\ o.skip => activeWindows'[o.actual].lockName = NoName
                    /\ \A n \in DOMAIN activeWindows \ {o.actual} : activeWindows'[n] = activeWindows[n]
            /\ (o2.pc = "done" /\ o2.res.error = "create_failed") =>
                    /\ o.pc \in {"cw_new", "cw_relfail"} /\ o2.saved = "fail"
                    /\ activeWindows' = activeWindows]_vars
\* a spawn of dev returned after the lock manager had renamed its lock on a
\* collision, and the registry holds the renamed lock for it
C30_Witness ==
    \E s \in Slots :
        /\ IsDone(s, {"bash"}) /\ ops[s].res.kind = "created"
        /\ ops[s].actual \in DOMAIN activeWindows
        /\ activeWindows[ops[s].actual].lockName = ops[s].lock
        /\ ops[s].lock # NoName /\ ops[s].lock # getTmuxLockName(ops[s].actual)

\* C31: when a spawn records its session in the registry, set-option
\* remain-on-exit had returned code 0 for its window, and the window is
\* there with the option set, so it stays when its command exits; also when
\* the command exited between new-window and set-option
C31_RegisteredWindowPersists ==
    [][\A s \in Slots :
        LET o == ops[s]
        IN (o.op \in SpawnKinds /\ o.pc = "cw_set" /\ ops'[s].pc # "cw_set"
                /\ o.actual \in DOMAIN activeWindows' /\ ops'[s].res.error = "-") =>
            /\ o.ret.st = "ok"
            /\ \E w \in windows : w.id = o.wid /\ w.name = o.actual /\ w.remain]_vars

\* ---- detectPiInputText on captured text (lines 239-273) ----
\* a line is a sequence of characters: "-" the rule glyph, " " white space,
\* ">" the prompt, "a" any other visible character, "^" one ANSI colour code
MinWidth == 10
MaxLines == 4
Rule(n) == [i \in 1..n |-> "-"]
PaneLines ==
    {Rule(MinWidth), Rule(MinWidth - 1), <<" ">> \o Rule(MinWidth), <<>>, <<" ">>, <<">">>, <<">", " ">>,
     <<">", " ", "a">>, <<"a">>, <<"^", ">", "^">>, <<">", ">">>}
\* the captured texts: up to MaxLines lines
CapturedOutputs == UNION {[1..n -> PaneLines] : n \in 0..MaxLines}

\* String.prototype.trim on one line
RECURSIVE trimStart(_)
trimStart(l) == IF l # <<>> /\ Head(l) = " " THEN trimStart(Tail(l)) ELSE l
RECURSIVE trimEnd(_)
trimEnd(l) == IF l # <<>> /\ l[Len(l)] = " " THEN trimEnd(SubSeq(l, 1, Len(l) - 1)) ELSE l
trim(l) == trimEnd(trimStart(l))
\* line 266: l.replace(/\x1b\[[0-9;]*m/g, "")
IsVisible(c) == c # "^"
stripAnsi(l) == SelectSeq(l, IsVisible)
\* lines 248-249: trimmed.length >= 10 && /^[-]+$/.test(trimmed)
isSeparator(l) == Len(trim(l)) >= MinWidth /\ \A i \in 1..Len(trim(l)) : trim(l)[i] = "-"
\* lines 246-252
separatorIndices(lines) == {i \in 1..Len(lines) : isSeparator(lines[i])}
Last(S) == CHOOSE i \in S : \A j \in S : j <= i
\* line 267: l.length > 0 && l !== ">"
IsInputLine(l) == l # <<>> /\ l # <<">">>
\* line 271: inputText.replace(/^>\s?/, "") on the first line of the joined text
stripPrompt(l) ==
    IF l # <<>> /\ Head(l) = ">"
    THEN IF Len(l) >= 2 /\ l[2] = " " THEN SubSeq(l, 3, Len(l)) ELSE Tail(l)
    ELSE l
\* line 271: .trim() on the joined text: white space and line breaks at both ends go
RECURSIVE trimTextStart(_)
trimTextStart(t) ==
    IF t = <<>> THEN t
    ELSE IF trimStart(Head(t)) = <<>> THEN trimTextStart(Tail(t))
    ELSE <<trimStart(Head(t))>> \o Tail(t)
RECURSIVE trimTextEnd(_)
trimTextEnd(t) ==
    IF t = <<>> THEN t
    ELSE IF trimEnd(t[Len(t)]) = <<>> THEN trimTextEnd(SubSeq(t, 1, Len(t) - 1))
    ELSE SubSeq(t, 1, Len(t) - 1) \o <<trimEnd(t[Len(t)])>>
\* a detection that pairs the first two separators
detectPiInputText_FirstPair(lines) ==
    LET seps == separatorIndices(lines)
    IN IF Cardinality(seps) < 2 THEN <<>>
       ELSE LET topSep == CHOOSE i \in seps : \A j \in seps : i <= j
                bottomSep == CHOOSE i \in seps \ {topSep} : \A j \in seps \ {topSep} : i <= j
                betweenLines == SubSeq(lines, topSep + 1, bottomSep - 1)
                mapped == [i \in 1..Len(betweenLines) |-> trim(stripAnsi(betweenLines[i]))]
                inputText == SelectSeq(mapped, IsInputLine)
            IN IF inputText = <<>> THEN <<>>
               ELSE trimTextEnd(trimTextStart(<<stripPrompt(Head(inputText))>> \o Tail(inputText)))
\* lines 239-273; the text found as its lines, no text (null) as no lines
detectPiInputText(lines) ==
    LET seps == separatorIndices(lines)
    IN IF Cardinality(seps) < 2 THEN <<>>
       ELSE LET bottomSep == Last(seps)
                topSep == Last(seps \ {bottomSep})
                betweenLines == SubSeq(lines, topSep + 1, bottomSep - 1)
                mapped == [i \in 1..Len(betweenLines) |-> trim(stripAnsi(betweenLines[i]))]
                inputText == SelectSeq(mapped, IsInputLine)
            IN IF inputText = <<>> THEN <<>>
               ELSE trimTextEnd(trimTextStart(<<stripPrompt(Head(inputText))>> \o Tail(inputText)))

\* a tmux-send whose detection capture returned the text capturedOutput
InitDetect ==
    \E capturedOutput \in CapturedOutputs :
        /\ tmuxEnv = TRUE
        /\ variant = "rename"
        /\ windows = {[id |-> 1, name |-> Dev, running |-> TRUE, remain |-> TRUE, cleanup |-> NoName, agent |-> TRUE, env |-> Dev]}
        /\ nextId = 2
        /\ activeWindows = [n \in {Dev} |-> [lockName |-> NoName, isCodingAgent |-> TRUE]]
        /\ lastWarnedInput = EmptyMap
        /\ locks = EmptyMap
        /\ ops = [s \in Slots |->
                    IF s = 1
                    THEN [IdleOp EXCEPT !.op = "send", !.pc = "snd_check", !.name = Dev, !.enter = TRUE, !.seen = "live",
                                        !.tracked = TRUE, !.calls = {"list-windows", "capture-pane"},
                                        !.ret = [OkRet EXCEPT !.stdout = capturedOutput]]
                    ELSE IdleOp]
        /\ lockLog = EmptyMap
        /\ lastDone = NoDone
        /\ lastSend = EmptyMap
\* line 572: const existingInput = detectPiInputText(capResult.stdout)
DetectPiInputText(s) ==
    /\ ops[s].pc = "snd_check" /\ ops[s].ret.st = "ok" /\ ~ops[s].detected.done
    /\ ops' = [ops EXCEPT ![s].detected = [done |-> TRUE, text |-> detectPiInputText(ops[s].ret.stdout)]]
    /\ UNCHANGED <<tmuxEnv, variant, windows, nextId, activeWindows, lastWarnedInput, locks, lockLog, lastDone, lastSend>>
NextDetect == \E s \in Slots : DetectPiInputText(s)
SpecDetect == InitDetect /\ [][NextDetect]_vars

\* a line made only of the rule glyph, at least MinWidth wide
RuleLine(l) == Len(l) >= MinWidth /\ \A i \in 1..Len(l) : l[i] = "-"
PaddedRuleLine(l) == RuleLine(trim(l))
ShownPlain(l) == trim(l)
ShownUncoloured(l) == trim(stripAnsi(l))
WithoutPrompt(l) == IF l # <<>> /\ Head(l) = ">" THEN trim(Tail(l)) ELSE l
\* what the input box of lines holds, for a reading of separator and of the
\* shown form of a line: result is that text
BoxHolds(IsSep(_), Shown(_), lines, result) ==
    LET S == {i \in 1..Len(lines) : IsSep(lines[i])}
    IN IF Cardinality(S) < 2 THEN result = <<>>
       ELSE LET b == Last(S)
                t == Last(S \ {b})
                kept == {i \in (t + 1)..(b - 1) : Shown(lines[i]) \notin {<<>>, <<">">>}}
            IN IF kept = {} THEN result = <<>>
               ELSE /\ Len(result) = Cardinality(kept)
                    /\ \A i \in kept :
                          LET k == Cardinality({j \in kept : j <= i})
                          IN result[k] = IF k = 1 THEN WithoutPrompt(Shown(lines[i])) ELSE Shown(lines[i])

MaxBannerLines == 6
BannerLines == {"V", "X", "T", "B"}
BannerTexts == UNION {[1..n -> BannerLines] : n \in 0..MaxBannerLines}
\* the first line of the kind, 0 when there is none (the source's -1)
firstIdx(lines, kind) ==
    IF \E i \in 1..Len(lines) : lines[i] = kind
    THEN CHOOSE i \in 1..Len(lines) : lines[i] = kind /\ \A j \in 1..(i - 1) : lines[j] # kind
    ELSE 0
\* lines 200-203: the next blank line after start, the end of the text without one
endIdx(lines, start) ==
    IF \E i \in (start + 1)..Len(lines) : lines[i] = "B"
    THEN CHOOSE i \in (start + 1)..Len(lines) : lines[i] = "B" /\ \A j \in (start + 1)..(i - 1) : lines[j] # "B"
    ELSE Len(lines)
\* lines.splice: the lines a .. b taken out
splice(lines, a, b) == SubSeq(lines, 1, a - 1) \o SubSeq(lines, b + 1, Len(lines))
\* lines 190-206 (variant 1020-1036): the help block after the version line
stripVersionBlock(lines) ==
    LET startIdx == firstIdx(lines, "V")
    IN IF startIdx = 0 THEN lines ELSE splice(lines, startIdx + 1, endIdx(lines, startIdx))
\* lines 208-223: the [Extensions] block
stripExtensionsBlock(lines) ==
    LET extIdx == firstIdx(lines, "X")
    IN IF extIdx = 0 THEN lines ELSE splice(lines, extIdx, endIdx(lines, extIdx))
\* a stripping that leaves the [Extensions] block in either form
stripStartupHelpLines_VersionOnly(form, lines) == stripVersionBlock(lines)
\* stripStartupHelp of the primary form (187-226) and of the registry-only form (1018-1038)
stripStartupHelpLines(form, lines) ==
    IF form = "rename" THEN stripExtensionsBlock(stripVersionBlock(lines)) ELSE stripVersionBlock(lines)

\* a tmux-coding-agent whose last capture returned the text capturedOutput
InitBanner ==
    \E capturedOutput \in BannerTexts, v \in Variants :
        /\ tmuxEnv = TRUE
        /\ variant = v
        /\ windows = {[id |-> 1, name |-> Dev, running |-> TRUE, remain |-> TRUE, cleanup |-> NoName, agent |-> TRUE, env |-> Dev]}
        /\ nextId = 2
        /\ activeWindows = [n \in {Dev} |-> [lockName |-> NoName, isCodingAgent |-> v = "rename"]]
        /\ lastWarnedInput = EmptyMap
        /\ locks = EmptyMap
        /\ ops = [s \in Slots |->
                    IF s = 1
                    THEN [IdleOp EXCEPT !.op = "agent", !.pc = "ag_final", !.name = Dev, !.actual = Dev, !.wid = 1, !.skip = TRUE,
                                        !.saved = "ok", !.elapsed = MaxWait,
                                        !.calls = {"new-window", "set-option", "capture-pane"} \cup (IF v = "rename" THEN {"list-windows"} ELSE {}),
                                        !.ret = [OkRet EXCEPT !.stdout = capturedOutput]]
                    ELSE IdleOp]
        /\ lockLog = EmptyMap
        /\ lastDone = NoDone
        /\ lastSend = EmptyMap
\* line 844 (variant 1416): capturedOutput = stripStartupHelp(capturedOutput)
StripStartupHelp(s) ==
    /\ ops[s].pc = "ag_final" /\ ops[s].ret.st = "ok" /\ ~ops[s].stripped.done
    /\ ops' = [ops EXCEPT ![s].stripped = [done |-> TRUE, text |-> stripStartupHelpLines(variant, ops[s].ret.stdout)]]
    /\ UNCHANGED <<tmuxEnv, variant, windows, nextId, activeWindows, lastWarnedInput, locks, lockLog, lastDone, lastSend>>
NextBanner == \E s \in Slots : StripStartupHelp(s)
SpecBanner == InitBanner /\ [][NextBanner]_vars

\* the lines of the text whose index is in K, in order
KeepOnly(lines, K) ==
    [k \in 1..Cardinality(K) |-> lines[CHOOSE i \in K : Cardinality({j \in K : j <= i}) = k]]
\* the help block of the first version line: the lines after it up to and
\* with the next blank line
HelpBlock(lines) ==
    IF firstIdx(lines, "V") = 0 THEN {}
    ELSE {i \in 1..Len(lines) : /\ i > firstIdx(lines, "V")
                                /\ \A j \in (firstIdx(lines, "V") + 1)..(i - 1) : lines[j] # "B"}
\* the block of the first [Extensions] line among the lines in K: from it up
\* to and with the next blank line in K
ExtensionsBlock(lines, K) ==
    IF \A i \in K : lines[i] # "X" THEN {}
    ELSE LET x == CHOOSE i \in K : lines[i] = "X" /\ \A j \in K : (j < i => lines[j] # "X")
         IN {i \in K : i >= x /\ \A j \in K : (x < j /\ j < i) => lines[j] # "B"}
AllLines(lines) == 1..Len(lines)

\* C33 as stated, for both forms: the text returned is the captured text
\* without the help block of its first version line and without its first
\* [Extensions] block; the version line and the lines before it stay, and a
\* text with neither line comes back unchanged
C33_AsStated ==
    \A s \in Slots :
        ops[s].stripped.done =>
            LET lines == ops[s].ret.stdout
                gone == HelpBlock(lines) \cup ExtensionsBlock(lines, AllLines(lines))
            IN ops[s].stripped.text = KeepOnly(lines, AllLines(lines) \ gone)
\* C33: in the primary form the text returned is the captured text without
\* the help block of its first version line and then without the first
\* [Extensions] block of what is left; in the registry-only form only the help
\* block is removed; a text with neither line (registry-only form: without a
\* version line) comes back unchanged
C33_StripBlocks ==
    \A s \in Slots :
        ops[s].stripped.done =>
            LET lines == ops[s].ret.stdout
                left == AllLines(lines) \ HelpBlock(lines)
                gone == IF variant = "rename" THEN ExtensionsBlock(lines, left) ELSE {}
            IN /\ ops[s].stripped.text = KeepOnly(lines, left \ gone)
               /\ (firstIdx(lines, "V") = 0 /\ (variant = "rename" => firstIdx(lines, "X") = 0)) => ops[s].stripped.text = lines
\* version line, help, blank, text, [Extensions] block, blank: the primary
\* form returns the version line and the text
C33_Witness ==
    \E s \in Slots :
        /\ ops[s].stripped.done /\ variant = "rename"
        /\ ops[s].ret.stdout = <<"V", "T", "B", "T", "X", "B">>
        /\ ops[s].stripped.text = <<"V", "T">>

\* C34: the interference cache holds warnings only for names the registry
\* has: whatever removes a name from the registry (capture not found, send
\* not found, kill, shutdown) removes its warning too
C34_CacheWithinRegistry ==
    DOMAIN lastWarnedInput \subseteq DOMAIN activeWindows

\* the lock of a finished spawn is referenced by the registry or its window's
\* command still runs
LockAccounted(L) ==
    \/ \E n \in DOMAIN activeWindows : activeWindows[n].lockName = L
    \/ \E w \in windows : w.id = locks[L] /\ w.running

\* C35: a step that removes from the registry an entry with a lock leaves
\* that lock released; and every held lock of a spawn that returned is
\* referenced by a registry entry or belongs to a window whose command runs
C35_RemovedEntryReleasesLock ==
    /\ [](\A L \in DOMAIN locks :
            (locks[L] \in DOMAIN lockLog /\ lockLog[locks[L]].ok /\ \A s \in Slots : ~InFlight(s)) => LockAccounted(L))
    /\ [][\A n \in DOMAIN activeWindows :
            (activeWindows[n].lockName # NoName /\ n \notin DOMAIN activeWindows') =>
                activeWindows[n].lockName \notin DOMAIN locks']_vars

\* ---- lock names taken again: spawns, exits and kills, one call at a time ----
ReuseCalls ==
    \/ \E s \in Slots : TmuxBash(s, 1, MaxSpawns)
    \/ \E s \in Slots : TmuxKill(s, 1)
    \/ Shutdown(1)

ReuseSteps ==
    \/ \E s \in Slots : TmuxListWindows(s)
    \/ \E s \in Slots : TmuxNewWindow(s)
    \/ \E s \in Slots : TmuxSetOption(s)
    \/ \E s \in Slots : TmuxKillWindow(s)
    \/ \E s \in Slots : CreateLock(s)
    \/ \E s \in Slots : ReleaseLock(s)
    \/ \E s \in Slots : CreateWindowAfterList(s)
    \/ \E s \in Slots : CreateWindowAfterLock(s)
    \/ \E s \in Slots : CreateWindowAfterNew(s)
    \/ \E s \in Slots : CreateWindowAfterSet(s)
    \/ \E s \in Slots : KillAfterList(s)
    \/ \E s \in Slots : KillAfterReleaseAbsent(s)
    \/ \E s \in Slots : KillAfterKillWindow(s)
    \/ \E s \in Slots : KillAfterReleaseLive(s)
    \/ \E w \in windows : CommandExit(w)
    \/ \E w \in windows : ExternalClose(w)

NextReuse == ReuseCalls \/ ReuseSteps
SpecReuse == InitRename /\ [][NextReuse]_vars

\* the release a tmux-kill in slot s awaits is carried out in this step
KillReleases(s) ==
    /\ ops[s].op = "kill" /\ Pending(s, ReleasePcs)
    /\ ops'[s].ret.st = "ok"
\* C36: the lock a tmux-kill removes is never the lock held by a session of
\* another window name (one that acquired the name after the killed session's
\* cleanup had released it)
C36_KillReleasesOwnLockOnly ==
    [][\A s \in Slots :
          (KillReleases(s) /\ ops[s].lock \in DOMAIN locks) =>
              \A w \in windows : w.id = locks[ops[s].lock] => w.name = ops[s].name]_vars


\* the live windows made by tmux-coding-agent (primary form) whose spawn has
\* passed the registration of lines 176 and 782-786
AgentWindows ==
    {w \in windows : /\ w.agent /\ variant = "rename"
                     /\ \A s \in Slots : ~(ops[s].wid = w.id /\ ops[s].pc \in {"cw_new", "cw_set"})}
\* C37: while the window of a session made by tmux-coding-agent is live, the
\* registry has its name with kind coding-agent, whatever captures, sends and
\* shutdowns came in between; and a send with enter to it that found it in
\* the listing goes on to the interference check
C37_AgentKindKept ==
    /\ [](\A w \in AgentWindows :
             w.name \in DOMAIN activeWindows /\ activeWindows[w.name].isCodingAgent)
    /\ [][\A s \in Slots :
             (/\ ops[s].op = "send" /\ ops[s].pc = "snd_list" /\ ops'[s].pc # "snd_list"
              /\ ops[s].enter /\ ops[s].ret.st = "ok" /\ ops[s].name \in ops[s].ret.names
              /\ \E w \in AgentWindows : w.name = ops[s].name)
             => ops'[s].pc = "snd_check"]_vars


\* C38: when a tmux-capture and a tmux-kill of the same name have both
\* returned, the capture with the pane's text and the kill with the window
\* killed, and no window of the name is left, the registry has no entry for
\* the name
C38_CaptureKillRace ==
    \A s, t \in Slots :
        (/\ IsDone(s, {"capture"}) /\ ops[s].res.kind = "captured"
         /\ IsDone(t, {"kill"}) /\ ops[t].res.kind = "killed"
         /\ ops[s].name = ops[t].name
         /\ ops[t].name \notin WindowNames)
        => ops[t].name \notin DOMAIN activeWindows


\* C39: when the detection capture of a tmux-send comes back with a non-zero
\* code, the handler's next step issues send-keys, reads no input text and
\* leaves the interference cache as it was
C39_FailedDetectionForwards ==
    [][\A s \in Slots :
          (/\ ops[s].op = "send" /\ ops[s].pc = "snd_check" /\ ops[s].ret.st = "fail"
           /\ ops'[s].pc # "snd_check")
          => /\ ops'[s].pc = "snd_keys"
             /\ sendKeysArgs(ops[s].enter) \subseteq ops'[s].calls
             /\ ops'[s].input = NoText
             /\ lastWarnedInput' = lastWarnedInput]_vars
\* a send whose detection capture failed has been forwarded and has returned
\* sent, with the earlier warning for its name still in the cache
C39_Witness ==
    \E s \in Slots :
        /\ IsDone(s, {"send"}) /\ ops[s].res.kind = "sent"
        /\ "capture-pane" \in ops[s].calls /\ ops[s].target = 0
        /\ ops[s].name \in DOMAIN lastWarnedInput

====
